---- MODULE Spec2Model ----
(***************************************************************************)
(* A model of the easyPlaywright page-object test suite: the helpers       *)
(* (retry, verifyLinksNotBroken), the accessibility checks, and the page   *)
(* objects and components driven against a browser page.                   *)
(*                                                                         *)
(* Each helper or method is a small state machine: one action per await    *)
(* or branch of its code.  What the browser-automation library and the     *)
(* site answer (a promise resolving or rejecting, an attribute's value, a  *)
(* locator's visibility) is the model's nondeterminism.                    *)
(***************************************************************************)
EXTENDS Integers, Sequences, FiniteSets, TLC

VARIABLES
  \* ---- retry (unnamed/part_002:153-172)
  r_pc,          \* position in retry: idle, loop, calling, waiting, resolved, rejected
  options,       \* the options argument retry was called with
  maxAttempts,   \* options.maxAttempts after destructuring with its default
  delay,         \* options.delay after destructuring with its default
  attempt,       \* the loop counter
  lastError,     \* the last caught error, Undefined before any
  r_result,      \* the value retry resolved with, or the value it threw
  r_events,      \* history: what retry has called so far, in order
  \* ---- verifyLinksNotBroken (unnamed/part_002:217-238)
  l_pc,          \* position: idle, loop, head, resolved, rejected
  links,         \* the page: the href of every a[href], in DOM order
  l_count,       \* count
  l_i,           \* the loop index i (0-based, as in the code)
  brokenLinks,   \* the list being built
  l_log,         \* history: per link visited, what became of it
  \* ---- checkImagesHaveAlt (src/utils/accessibilityHelpers.ts:22-49)
  im_pc,         \* position: idle, loop, resolved
  images,        \* the page: the alt and src attributes of every img, in DOM order
  im_count,      \* count
  im_i,          \* the loop index i (0-based)
  im_violations, \* violations
  \* ---- the tests, their page objects and their browser pages
  site,          \* the site under test
  page,          \* per browser page: url, viewport, whether the menu is expanded
  bound,         \* per test: the page its page objects were constructed on
  t_pc,          \* per test: off, new, idle, failed, or the line its method is at
  call,          \* per test: the method called last, and the page as it was then
  trace,         \* per test: the library calls of that method so far, in order
  ret,           \* per test: what that method returned
  scrolled,      \* per test: footer.scrollIntoView() returned since the last load
  \* ---- assertNoCriticalViolations (src/utils/accessibilityHelpers.ts:187-211)
  a_pc,          \* position: idle, the line of the next check, resolved, rejected
  doc,           \* the page: its img, a and heading elements and its html lang
  allViolations, \* allViolations of runAccessibilityChecks
  a_error,       \* the message of the Error thrown, empty when none was
  \* ---- BlogPostComponent.findPostContaining (unnamed/part_000:132-143)
  p_pc,          \* position: idle, the line it is at, resolved, rejected
  cards,         \* the page: per post card, the texts of its title links in order
  searchText,    \* the argument
  titles,        \* titles of getAllPostTitles
  p_i,           \* the loop index i of getAllPostTitles (0-based)
  matchingIndex, \* the result of findIndex
  p_result,      \* what findPostContaining returned
  \* ---- BlogPostComponent.getPostByIndex (unnamed/part_000:64-88)
  g_pc,          \* position: idle, the line it is at, resolved, rejected
  g_cards,       \* the page: the elements of each post card
  g_index,       \* the argument index
  g_post,        \* the locals title, date, description, url and tags
  g_tagCount,    \* tagCount
  g_i,           \* the loop index i over the tags (0-based)
  \* ---- HomePage.getVisibleSections (unnamed/part_002:122-131)
  s_pc,          \* position: idle, the line it is at, resolved
  components,    \* the page: how the container of each component is rendered
  sections,      \* sections
  s_asked,       \* the components whose isVisible() was called, in order
  \* ---- scrollFullPage (unnamed/part_002:243-260)
  sc_pc,         \* position: idle, evaluating (the promise is pending), resolved
  scrollHeight,  \* the page: document.body.scrollHeight
  growths,       \* the page: how many more times its height will grow
  scrollY,       \* the page: window.scrollY
  totalHeight,   \* totalHeight
  timer,         \* the interval is set and not cleared
  ticks,         \* how many times the interval callback has run
  data           \* the exported records, as the module loaded them

retryVars == <<r_pc, options, maxAttempts, delay, attempt, lastError, r_result, r_events>>
linkVars == <<l_pc, links, l_count, l_i, brokenLinks, l_log>>

imageVars == <<im_pc, images, im_count, im_i, im_violations>>

navVars == <<site, page, bound, t_pc, call, trace, ret, scrolled>>

a11yVars == <<a_pc, doc, allViolations, a_error>>

postVars == <<p_pc, cards, searchText, titles, p_i, matchingIndex, p_result>>

postDataVars == <<g_pc, g_cards, g_index, g_post, g_tagCount, g_i>>

sectionVars == <<s_pc, components, sections, s_asked>>

scrollVars == <<sc_pc, scrollHeight, growths, scrollY, totalHeight, timer, ticks>>

\* the state of getPostByIndex, getVisibleSections and scrollFullPage together
laterVars == <<postDataVars, sectionVars, scrollVars>>

vars == <<retryVars, linkVars, imageVars, navVars, a11yVars, postVars, laterVars, data>>

\* what a helper's steps leave alone: the state of the others
notRetryVars == <<linkVars, imageVars, navVars, a11yVars, postVars, laterVars, data>>
notLinkVars == <<retryVars, imageVars, navVars, a11yVars, postVars, laterVars, data>>
notImageVars == <<retryVars, linkVars, navVars, a11yVars, postVars, laterVars, data>>
notNavVars == <<retryVars, linkVars, imageVars, a11yVars, postVars, laterVars, data>>
notPostVars == <<retryVars, linkVars, imageVars, navVars, a11yVars, laterVars, data>>
notA11yVars == <<retryVars, linkVars, imageVars, navVars, postVars, laterVars, data>>
notPostDataVars == <<retryVars, linkVars, imageVars, navVars, a11yVars, postVars, sectionVars, scrollVars, data>>
notSectionVars == <<retryVars, linkVars, imageVars, navVars, a11yVars, postVars, postDataVars, scrollVars, data>>
notScrollVars == <<retryVars, linkVars, imageVars, navVars, a11yVars, postVars, postDataVars, sectionVars, data>>

-----------------------------------------------------------------------------
(* Values shared by the helpers *)

Undefined == "undefined"

-----------------------------------------------------------------------------
(* retry *)

\* the largest maxAttempts a caller passes in the model
MaxAttemptsIn == 3

DefaultMaxAttempts == 3
DefaultDelay == 1000

\* what fn may resolve with, and what it may throw
FnValues == {"v1", "v2"}
FnErrors == {"e1", "e2"}

\* an option of the options object: given with a number, or left out
Given(n) == [given |-> TRUE, number |-> n]
NotGiven == [given |-> FALSE, number |-> 0]

MaxAttemptsOptions == {NotGiven} \cup {Given(n) : n \in -1 .. MaxAttemptsIn}
DelayOptions == {NotGiven, Given(50)}

\* const { maxAttempts = 3, delay = 1000 } = options
WithDefault(opt, dflt) == IF opt.given THEN opt.number ELSE dflt

FnResolved(v) == [kind |-> "fn", outcome |-> "resolved", value |-> v, ms |-> 0]
FnRejected(e) == [kind |-> "fn", outcome |-> "rejected", value |-> e, ms |-> 0]
Waited(ms) == [kind |-> "wait", outcome |-> "resolved", value |-> Undefined, ms |-> ms]

RetryInit ==
  /\ r_pc = "idle"
  /\ options = [maxAttempts |-> NotGiven, delay |-> NotGiven]
  /\ maxAttempts = 0
  /\ delay = 0
  /\ attempt = 0
  /\ lastError = Undefined
  /\ r_result = Undefined
  /\ r_events = <<>>

\* retry(fn, options): destructure the options, let lastError, attempt = 1
RetryCall(optMax, optDelay) ==
  /\ r_pc = "idle"
  /\ UNCHANGED notRetryVars
  /\ options' = [maxAttempts |-> optMax, delay |-> optDelay]
  /\ maxAttempts' = WithDefault(optMax, DefaultMaxAttempts)
  /\ delay' = WithDefault(optDelay, DefaultDelay)
  /\ attempt' = 1
  /\ lastError' = Undefined
  /\ r_pc' = "loop"
  /\ UNCHANGED <<r_result, r_events>>

\* the mutant of RetryLoopTest: the first attempt is made whatever maxAttempts
RetryLoopTestAtLeastOnce ==
  /\ r_pc = "loop"
  /\ UNCHANGED notRetryVars
  /\ IF attempt <= maxAttempts \/ attempt = 1
       THEN /\ r_pc' = "calling"
            /\ UNCHANGED r_result
       ELSE /\ r_pc' = "rejected"
            /\ r_result' = lastError
  /\ UNCHANGED <<options, maxAttempts, delay, attempt, lastError, r_events>>

\* the loop test attempt <= maxAttempts; past the loop, throw lastError
RetryLoopTest ==
  /\ r_pc = "loop"
  /\ UNCHANGED notRetryVars
  /\ IF attempt <= maxAttempts
       THEN /\ r_pc' = "calling"
            /\ UNCHANGED r_result
       ELSE /\ r_pc' = "rejected"
            /\ r_result' = lastError
  /\ UNCHANGED <<options, maxAttempts, delay, attempt, lastError, r_events>>

\* the mutant of RetryFnResolves: the value is dropped and the loop goes on
RetryFnResolvesGoesOn(v) ==
  /\ r_pc = "calling"
  /\ UNCHANGED notRetryVars
  /\ r_events' = Append(r_events, FnResolved(v))
  /\ attempt' = attempt + 1
  /\ r_pc' = "loop"
  /\ UNCHANGED <<options, maxAttempts, delay, lastError, r_result>>

\* return await fn(): fn resolved with v
RetryFnResolves(v) ==
  /\ r_pc = "calling"
  /\ UNCHANGED notRetryVars
  /\ r_events' = Append(r_events, FnResolved(v))
  /\ r_result' = v
  /\ r_pc' = "resolved"
  /\ UNCHANGED <<options, maxAttempts, delay, attempt, lastError>>

\* the mutant of RetryFnRejects: the first error is kept, not the last
RetryFnRejectsKeepsFirst(e) ==
  /\ r_pc = "calling"
  /\ UNCHANGED notRetryVars
  /\ r_events' = Append(r_events, FnRejected(e))
  /\ lastError' = IF lastError = Undefined THEN e ELSE lastError
  /\ IF attempt < maxAttempts
       THEN /\ r_pc' = "waiting"
            /\ UNCHANGED attempt
       ELSE /\ r_pc' = "loop"
            /\ attempt' = attempt + 1
  /\ UNCHANGED <<options, maxAttempts, delay, r_result>>

\* the mutant of RetryFnRejects: wait(delay) after every failed attempt
RetryFnRejectsAlwaysWaits(e) ==
  /\ r_pc = "calling"
  /\ UNCHANGED notRetryVars
  /\ r_events' = Append(r_events, FnRejected(e))
  /\ lastError' = e
  /\ r_pc' = "waiting"
  /\ UNCHANGED <<options, maxAttempts, delay, attempt, r_result>>

\* catch (error): lastError = error; wait(delay) when an attempt is left,
\* else on to attempt++
RetryFnRejects(e) ==
  /\ r_pc = "calling"
  /\ UNCHANGED notRetryVars
  /\ r_events' = Append(r_events, FnRejected(e))
  /\ lastError' = e
  /\ IF attempt < maxAttempts
       THEN /\ r_pc' = "waiting"
            /\ UNCHANGED attempt
       ELSE /\ r_pc' = "loop"
            /\ attempt' = attempt + 1
  /\ UNCHANGED <<options, maxAttempts, delay, r_result>>

\* await wait(delay) resolves, then attempt++
RetryWaitDone ==
  /\ r_pc = "waiting"
  /\ UNCHANGED notRetryVars
  /\ r_events' = Append(r_events, Waited(delay))
  /\ attempt' = attempt + 1
  /\ r_pc' = "loop"
  /\ UNCHANGED <<options, maxAttempts, delay, lastError, r_result>>

RetryNext ==
  \/ \E m \in MaxAttemptsOptions, d \in DelayOptions : RetryCall(m, d)
  \/ RetryLoopTest
  \/ \E v \in FnValues : RetryFnResolves(v)
  \/ \E e \in FnErrors : RetryFnRejects(e)
  \/ RetryWaitDone


-----------------------------------------------------------------------------
(* verifyLinksNotBroken *)

\* the most a[href] elements a page of the model holds
MaxLinks == 3

\* A string is the sequence of its characters.
StartsWith(str, prefix) ==
  /\ Len(str) >= Len(prefix)
  /\ SubSeq(str, 1, Len(prefix)) = prefix

HrefEmpty == <<>>
HrefFragment == <<"#", "t">>
HrefScript == <<"j", "a", "v", "a", "s", "c", "r", "i", "p", "t", ":", "x">>
HrefRooted == <<"/", "a">>
HrefRelative == <<"j", "a">>
HrefNoHost == <<"/", "/">>
Hrefs == {HrefEmpty, HrefFragment, HrefScript, HrefRooted, HrefRelative, HrefNoHost}

\* page.url(), as origin and directory
PageOrigin == <<"s", ":">>
PageDir == <<"/", "q", "/">>

\* new URL(href, base).toString(): a reference that starts with "//" names a
\* host, and an empty host does not parse (TypeError); one that starts with
\* "/" replaces the base's path; any other is resolved in the base's directory.
UrlThrows(href) == StartsWith(href, <<"/", "/">>) /\ Len(href) = 2
AbsoluteUrl(href) ==
  IF StartsWith(href, <<"/">>) THEN PageOrigin \o href
  ELSE PageOrigin \o PageDir \o href

\* what a HEAD request may answer
Statuses == {200, 399, 400, 404}

StatusText(st) ==
  CASE st = 200 -> <<"2", "0", "0">>
    [] st = 399 -> <<"3", "9", "9">>
    [] st = 400 -> <<"4", "0", "0">>
    [] st = 404 -> <<"4", "0", "4">>

\* `${href} (${response.status()})`
BrokenEntry(href, st) == href \o <<" ", "(">> \o StatusText(st) \o <<")">>

\* all sequences over S of length at most n
SeqsUpTo(S, n) == UNION {[1 .. k -> S] : k \in 0 .. n}

LinksIdle ==
  /\ l_pc = "idle"
  /\ links = <<>>
  /\ l_count = 0
  /\ l_i = 0
  /\ brokenLinks = <<>>
  /\ l_log = <<>>

LinksInit ==
  /\ l_pc = "idle"
  /\ links \in SeqsUpTo(Hrefs, MaxLinks)
  /\ l_count = 0
  /\ l_i = 0
  /\ brokenLinks = <<>>
  /\ l_log = <<>>

\* what became of link number index (1-based, DOM order)
Visit(index, what, st) == [index |-> index, what |-> what, status |-> st]

\* brokenLinks = [], links = page.locator('a[href]'), count = await links.count()
VerifyLinksCall ==
  /\ l_pc = "idle"
  /\ UNCHANGED notLinkVars
  /\ l_count' = Len(links)
  /\ l_i' = 0
  /\ brokenLinks' = <<>>
  /\ l_pc' = "loop"
  /\ UNCHANGED <<links, l_log>>

\* the mutant of HrefIsChecked: fragment links are requested too
HrefIsCheckedFragmentsToo(href) ==
  /\ href # <<>>
  /\ ~StartsWith(href, <<"j", "a", "v", "a", "s", "c", "r", "i", "p", "t", ":">>)

\* href && !href.startsWith('#') && !href.startsWith('javascript:')
HrefIsChecked(href) ==
  /\ href # <<>>
  /\ ~StartsWith(href, <<"#">>)
  /\ ~StartsWith(href, <<"j", "a", "v", "a", "s", "c", "r", "i", "p", "t", ":">>)

\* the mutant of UrlThrowIsCaught: no try around new URL
UrlThrowEscapes == FALSE

\* new URL(...) is inside the try block
UrlThrowIsCaught == TRUE

\* the mutant of HeadThrowIsCaught: the catch rethrows
HeadThrowEscapes == FALSE

\* page.request.head(...) is inside the try block
HeadThrowIsCaught == TRUE

\* one pass of the loop up to the request: the loop test, getAttribute('href'),
\* the if, and new URL(href, page.url()).toString()
VerifyLinksIterate ==
  /\ l_pc = "loop"
  /\ UNCHANGED notLinkVars
  /\ IF l_i < l_count
       THEN LET href == links[l_i + 1] IN
            IF ~HrefIsChecked(href)
              THEN /\ l_log' = Append(l_log, Visit(l_i + 1, "skipped", 0))
                   /\ l_i' = l_i + 1
                   /\ l_pc' = "loop"
            ELSE IF UrlThrows(href)
              THEN /\ l_log' = Append(l_log, Visit(l_i + 1, "urlThrew", 0))
                   /\ IF UrlThrowIsCaught
                        THEN l_i' = l_i + 1 /\ l_pc' = "loop"
                        ELSE l_i' = l_i /\ l_pc' = "rejected"
            ELSE /\ l_pc' = "head"
                 /\ UNCHANGED <<l_i, l_log>>
       ELSE \* return brokenLinks
            /\ l_pc' = "resolved"
            /\ UNCHANGED <<l_i, l_log>>
  /\ UNCHANGED <<links, l_count, brokenLinks>>

\* the mutant of IsBroken: only statuses above 400 count
IsBrokenAbove(st) == st > 400

\* response.status() >= 400
IsBroken(st) == st >= 400

\* await page.request.head(absoluteUrl) resolves with status st
VerifyLinksHeadResolves(st) ==
  /\ l_pc = "head"
  /\ UNCHANGED notLinkVars
  /\ LET href == links[l_i + 1] IN
       /\ l_log' = Append(l_log, Visit(l_i + 1, "requested", st))
       /\ brokenLinks' = IF IsBroken(st)
                           THEN Append(brokenLinks, BrokenEntry(href, st))
                           ELSE brokenLinks
  /\ l_i' = l_i + 1
  /\ l_pc' = "loop"
  /\ UNCHANGED <<links, l_count>>

\* await page.request.head(absoluteUrl) rejects: catch { }, skip the link
VerifyLinksHeadThrows ==
  /\ l_pc = "head"
  /\ UNCHANGED notLinkVars
  /\ l_log' = Append(l_log, Visit(l_i + 1, "headThrew", 0))
  /\ IF HeadThrowIsCaught
       THEN l_i' = l_i + 1 /\ l_pc' = "loop"
       ELSE l_i' = l_i /\ l_pc' = "rejected"
  /\ UNCHANGED <<links, l_count, brokenLinks>>

LinksNext ==
  \/ VerifyLinksCall
  \/ VerifyLinksIterate
  \/ \E st \in Statuses : VerifyLinksHeadResolves(st)
  \/ VerifyLinksHeadThrows

-----------------------------------------------------------------------------
(* checkImagesHaveAlt *)

\* the most img elements a page of the model holds
MaxImages == 2

\* getAttribute(name): null when the attribute is absent, else its text
Null == [present |-> FALSE, text |-> <<>>]
Attr(text) == [present |-> TRUE, text |-> text]

Whitespace == {" ", "\t", "\n"}

RECURSIVE TrimStart(_)
TrimStart(str) ==
  IF str # <<>> /\ Head(str) \in Whitespace THEN TrimStart(Tail(str)) ELSE str

RECURSIVE TrimEnd(_)
TrimEnd(str) ==
  IF str # <<>> /\ str[Len(str)] \in Whitespace
    THEN TrimEnd(SubSeq(str, 1, Len(str) - 1))
    ELSE str

\* String.prototype.trim
Trim(str) == TrimEnd(TrimStart(str))

AltValues == {Null, Attr(<<>>), Attr(<<" ", "\t">>), Attr(<<" ", "a", " ">>), Attr(<<"a">>)}
SrcValues == {Null, Attr(<<"x">>), Attr(<<"y">>)}
Images == [alt : AltValues, src : SrcValues]

\* `${src}` in a template: null prints as "null"
Interpolate(attr) == IF attr.present THEN attr.text ELSE <<"n", "u", "l", "l">>

\* `img[src="${src}"]`
ImgElement(src) == <<"img[src=\"">> \o Interpolate(src) \o <<"\"]">>

Violation(element, issue, severity) ==
  [element |-> element, issue |-> issue, severity |-> severity]

ImagesIdle ==
  /\ im_pc = "idle"
  /\ images = <<>>
  /\ im_count = 0
  /\ im_i = 0
  /\ im_violations = <<>>

ImagesInit ==
  /\ im_pc = "idle"
  /\ images \in SeqsUpTo(Images, MaxImages)
  /\ im_count = 0
  /\ im_i = 0
  /\ im_violations = <<>>

\* violations = [], images = page.locator('img'), count = await images.count()
CheckImagesCall ==
  /\ im_pc = "idle"
  /\ UNCHANGED notImageVars
  /\ im_count' = Len(images)
  /\ im_i' = 0
  /\ im_violations' = <<>>
  /\ im_pc' = "loop"
  /\ UNCHANGED images

\* the mutant of AltViolations: a blank alt is taken for a missing one
AltViolationsBlankIsMissing(alt, src) ==
  IF ~alt.present \/ Trim(alt.text) = <<>>
    THEN <<Violation(ImgElement(src), "Image missing alt attribute", "critical")>>
    ELSE <<>>

\* if (alt === null || alt === undefined) push critical
\* else if (alt.trim() === '') push minor
AltViolations(alt, src) ==
  IF ~alt.present
    THEN <<Violation(ImgElement(src), "Image missing alt attribute", "critical")>>
  ELSE IF Trim(alt.text) = <<>>
    THEN <<Violation(ImgElement(src), "Image has empty alt (verify if decorative)",
                     "minor")>>
  ELSE <<>>

\* one pass of the loop: the test, the two getAttribute calls, the if;
\* past the loop, return violations
CheckImagesIterate ==
  /\ im_pc = "loop"
  /\ UNCHANGED notImageVars
  /\ IF im_i < im_count
       THEN LET img == images[im_i + 1] IN
            /\ im_violations' = im_violations \o AltViolations(img.alt, img.src)
            /\ im_i' = im_i + 1
            /\ im_pc' = "loop"
       ELSE /\ im_pc' = "resolved"
            /\ UNCHANGED <<im_i, im_violations>>
  /\ UNCHANGED <<images, im_count>>

ImagesNext ==
  \/ CheckImagesCall
  \/ CheckImagesIterate

-----------------------------------------------------------------------------
(* runAccessibilityChecks and assertNoCriticalViolations *)

\* the most a elements, and the most headings, a page of the model holds
MaxAnchors == 1
MaxHeadings == 2

\* checkImagesHaveAlt as a whole: the violations of the img elements in order
RECURSIVE CheckImagesHaveAlt(_)
CheckImagesHaveAlt(imgs) ==
  IF imgs = <<>> THEN <<>>
  ELSE AltViolations(Head(imgs).alt, Head(imgs).src) \o CheckImagesHaveAlt(Tail(imgs))

\* an a element: its textContent, its aria-label and href attributes
Anchors ==
  [text : {<<>>, <<" ", "\n">>, <<"a">>},
   ariaLabel : {Null, Attr(<<>>), Attr(<<"a">>)},
   href : {Null, Attr(<<"/">>)}]

\* `a[href="${href}"]`
AnchorElement(href) == <<"a[href=\"">> \o Interpolate(href) \o <<"\"]">>

\* !ariaLabel: null and the empty string are both falsy
Falsy(attr) == ~attr.present \/ attr.text = <<>>

\* the mutant of LinkViolations: an aria-label that is present counts as a
\* name, empty or not
LinkViolationsAnyLabel(a) ==
  IF Trim(a.text) = <<>> /\ ~a.ariaLabel.present
    THEN <<Violation(AnchorElement(a.href), "Link has no accessible name", "critical")>>
    ELSE <<>>

\* if (!text?.trim() && !ariaLabel) push critical
LinkViolations(a) ==
  IF Trim(a.text) = <<>> /\ Falsy(a.ariaLabel)
    THEN <<Violation(AnchorElement(a.href), "Link has no accessible name", "critical")>>
    ELSE <<>>

RECURSIVE CheckLinksAccessible(_)
CheckLinksAccessible(anchors) ==
  IF anchors = <<>> THEN <<>>
  ELSE LinkViolations(Head(anchors)) \o CheckLinksAccessible(Tail(anchors))

\* the mutant of SkippedLevels: the first heading is compared with level 0
\* like any other
RECURSIVE SkippedLevelsFromZero(_, _)
SkippedLevelsFromZero(levels, lastLevel) ==
  IF levels = <<>> THEN <<>>
  ELSE LET level == Head(levels) IN
       (IF level > lastLevel + 1
          THEN <<Violation(<<"h" \o ToString(level)>>,
                           "Heading level skipped from h" \o ToString(lastLevel)
                             \o " to h" \o ToString(level),
                           "moderate")>>
          ELSE <<>>)
       \o SkippedLevelsFromZero(Tail(levels), level)

\* the loop over the headings: lastLevel starts at 0, a level more than one
\* above the last one is a skip unless it is the first heading
RECURSIVE SkippedLevels(_, _)
SkippedLevels(levels, lastLevel) ==
  IF levels = <<>> THEN <<>>
  ELSE LET level == Head(levels) IN
       (IF level > lastLevel + 1 /\ lastLevel # 0
          THEN <<Violation(<<"h" \o ToString(level)>>,
                           "Heading level skipped from h" \o ToString(lastLevel)
                             \o " to h" \o ToString(level),
                           "moderate")>>
          ELSE <<>>)
       \o SkippedLevels(Tail(levels), level)

IsH1(level) == level = 1

\* headings.filter((h) => h.level === 1).length
H1Count(levels) == Len(SelectSeq(levels, IsH1))

\* the mutant of CheckHeadingHierarchy: a single h1 counts as multiple
CheckHeadingHierarchyAtLeastOne(levels) ==
  SkippedLevels(levels, 0)
  \o (IF H1Count(levels) >= 1
        THEN <<Violation(<<"h1">>,
                         "Multiple h1 elements found (" \o ToString(H1Count(levels)) \o ")",
                         "moderate")>>
        ELSE <<>>)
  \o (IF H1Count(levels) = 0
        THEN <<Violation(<<"h1">>, "No h1 element found on page", "serious")>>
        ELSE <<>>)

\* checkHeadingHierarchy: the skips, then multiple h1, then no h1
CheckHeadingHierarchy(levels) ==
  SkippedLevels(levels, 0)
  \o (IF H1Count(levels) > 1
        THEN <<Violation(<<"h1">>,
                         "Multiple h1 elements found (" \o ToString(H1Count(levels)) \o ")",
                         "moderate")>>
        ELSE <<>>)
  \o (IF H1Count(levels) = 0
        THEN <<Violation(<<"h1">>, "No h1 element found on page", "serious")>>
        ELSE <<>>)

\* checkPageLanguage: if (!lang) push serious; documentElement.lang is a string
CheckPageLanguage(lang) ==
  IF lang = <<>>
    THEN <<Violation(<<"html">>, "Page language not specified", "serious")>>
    ELSE <<>>

\* the documents of the model; nothing has the keyboard focus: the active
\* element is the body
Docs ==
  [imgs : SeqsUpTo([alt : {Null, Attr(<<>>), Attr(<<"a">>)}, src : {Attr(<<"x">>)}],
                   MaxImages),
   anchors : SeqsUpTo(Anchors, MaxAnchors),
   levels : SeqsUpTo(1 .. 3, MaxHeadings),
   lang : {<<>>, <<"e", "n">>},
   activeElement : {"body"}]

A11yIdle ==
  /\ a_pc = "idle"
  /\ doc = [imgs |-> <<>>, anchors |-> <<>>, levels |-> <<>>, lang |-> <<>>,
            activeElement |-> "body"]
  /\ allViolations = <<>>
  /\ a_error = <<>>

A11yInit ==
  /\ a_pc = "idle"
  /\ doc \in Docs
  /\ allViolations = <<>>
  /\ a_error = <<>>

\* one line of runAccessibilityChecks: allViolations.push(...(await check(page)))
RunCheck(from, to, found) ==
  /\ a_pc = from
  /\ allViolations' = allViolations \o found
  /\ a_pc' = to
  /\ UNCHANGED <<doc, a_error>>
  /\ UNCHANGED notA11yVars

\* assertNoCriticalViolations(page) calls runAccessibilityChecks(page):
\* allViolations = []
AssertCall ==
  /\ a_pc = "idle"
  /\ RunCheck("idle", "runAccessibilityChecks:190", <<>>)

RunCheckImages ==
  /\ a_pc = "runAccessibilityChecks:190"
  /\ RunCheck("runAccessibilityChecks:190", "runAccessibilityChecks:191",
              CheckImagesHaveAlt(doc.imgs))

RunCheckLinks ==
  /\ a_pc = "runAccessibilityChecks:191"
  /\ RunCheck("runAccessibilityChecks:191", "runAccessibilityChecks:192",
              CheckLinksAccessible(doc.anchors))

RunCheckHeadings ==
  /\ a_pc = "runAccessibilityChecks:192"
  /\ RunCheck("runAccessibilityChecks:192", "runAccessibilityChecks:193",
              CheckHeadingHierarchy(doc.levels))

\* the mutant of RunCheckLanguage: checkFocusVisible is run as a fifth check,
\* element.focus() on every a element (all of them with a visible focus ring)
RunCheckLanguageThenFocus ==
  /\ a_pc = "runAccessibilityChecks:193"
  /\ allViolations' = allViolations \o CheckPageLanguage(doc.lang)
  /\ doc' = IF doc.anchors # <<>> THEN [doc EXCEPT !.activeElement = "a"] ELSE doc
  /\ a_pc' = "assertNoCriticalViolations:203"
  /\ UNCHANGED a_error
  /\ UNCHANGED notA11yVars

\* the last check, then return allViolations
RunCheckLanguage ==
  /\ a_pc = "runAccessibilityChecks:193"
  /\ RunCheck("runAccessibilityChecks:193", "assertNoCriticalViolations:203",
              CheckPageLanguage(doc.lang))

\* the mutant of IsCritical: serious violations are fatal too
IsCriticalOrSerious(v) == v.severity \in {"critical", "serious"}

\* (v) => v.severity === 'critical'
IsCritical(v) == v.severity = "critical"

\* criticalViolations.map((v) => `${v.element}: ${v.issue}`).join('\n')
RECURSIVE JoinMessages(_)
JoinMessages(vs) ==
  IF vs = <<>> THEN <<>>
  ELSE Head(vs).element \o <<": ", Head(vs).issue>>
       \o (IF Tail(vs) = <<>> THEN <<>> ELSE <<"\n">> \o JoinMessages(Tail(vs)))

\* `Critical accessibility violations found:\n${messages}`
ErrorMessage(vs) ==
  <<"Critical accessibility violations found:", "\n">> \o JoinMessages(vs)

\* filter, then throw when criticalViolations.length > 0
AssertNoCritical ==
  /\ a_pc = "assertNoCriticalViolations:203"
  /\ LET criticalViolations == SelectSeq(allViolations, IsCritical) IN
       IF Len(criticalViolations) > 0
         THEN /\ a_error' = ErrorMessage(criticalViolations)
              /\ a_pc' = "rejected"
         ELSE /\ a_pc' = "resolved"
              /\ UNCHANGED a_error
  /\ UNCHANGED <<doc, allViolations>>
  /\ UNCHANGED notA11yVars

A11yNext ==
  \/ AssertCall
  \/ RunCheckImages
  \/ RunCheckLinks
  \/ RunCheckHeadings
  \/ RunCheckLanguage
  \/ AssertNoCritical

-----------------------------------------------------------------------------
(* BlogPostComponent.getAllPostTitles, getPostByIndex, findPostContaining *)

\* the most post cards a page holds, and the most title links a card holds
MaxCards == 2
MaxTitleLinks == 2

\* textContent of a title link
TitleTexts == {<<" ">>, <<"k">>, <<"K">>, <<" ", "a", "\n">>}

\* a post card: the texts of the links in it that the title selectors match
\* (none, one, or more than one: a[rel="permalink"] on the teaser image too)
Cards == SeqsUpTo(TitleTexts, MaxTitleLinks)

\* String.prototype.toLowerCase
LowerCase(c) == IF c = "K" THEN "k" ELSE c
ToLowerCase(str) == [k \in 1 .. Len(str) |-> LowerCase(str[k])]

\* String.prototype.includes
Includes(str, sub) ==
  \E k \in 0 .. Len(str) - Len(sub) : SubSeq(str, k + 1, k + Len(sub)) = sub

\* this.page.locator('.archive__item-title a, ...'): the title links of the
\* whole page in document order
RECURSIVE TitleLocators(_)
TitleLocators(cs) == IF cs = <<>> THEN <<>> ELSE Head(cs) \o TitleLocators(Tail(cs))

\* posts.findIndex(title => title.toLowerCase().includes(searchText.toLowerCase()))
RECURSIVE FindIndex(_, _, _)
FindIndex(ts, text, from) ==
  IF from >= Len(ts) THEN -1
  ELSE IF Includes(ToLowerCase(ts[from + 1]), ToLowerCase(text)) THEN from
  ELSE FindIndex(ts, text, from + 1)

NullPost == [kind |-> "null", title |-> <<>>]
Post(title) == [kind |-> "post", title |-> title]
TimedOut == [kind |-> "TimeoutError", title |-> <<>>]

PostsIdle ==
  /\ p_pc = "idle"
  /\ cards = <<>>
  /\ searchText = <<>>
  /\ titles = <<>>
  /\ p_i = 0
  /\ matchingIndex = -1
  /\ p_result = NullPost

PostsInit ==
  /\ p_pc = "idle"
  /\ cards \in SeqsUpTo(Cards, MaxCards)
  /\ searchText \in {<<"k">>, <<"K">>, <<"a">>}
  /\ titles = <<>>
  /\ p_i = 0
  /\ matchingIndex = -1
  /\ p_result = NullPost

\* findPostContaining(searchText) calls getAllPostTitles(): titles = []
FindPostCall ==
  /\ p_pc = "idle"
  /\ p_pc' = "getAllPostTitles:51"
  /\ titles' = <<>>
  /\ p_i' = 0
  /\ UNCHANGED <<cards, searchText, matchingIndex, p_result>>
  /\ UNCHANGED notPostVars

\* the mutant of GetAllPostTitlesIterate: the text is pushed as it was read
GetAllPostTitlesIterateUntrimmed ==
  /\ p_pc = "getAllPostTitles:51"
  /\ IF p_i < Len(TitleLocators(cards))
       THEN LET text == TitleLocators(cards)[p_i + 1] IN
            /\ titles' = IF Trim(text) # <<>> THEN Append(titles, text) ELSE titles
            /\ p_i' = p_i + 1
            /\ p_pc' = "getAllPostTitles:51"
       ELSE /\ p_pc' = "findPostContaining:134"
            /\ UNCHANGED <<titles, p_i>>
  /\ UNCHANGED <<cards, searchText, matchingIndex, p_result>>
  /\ UNCHANGED notPostVars

\* one pass of the loop of getAllPostTitles: a text that trims to nothing is
\* left out; past the loop, return titles
GetAllPostTitlesIterate ==
  /\ p_pc = "getAllPostTitles:51"
  /\ IF p_i < Len(TitleLocators(cards))
       THEN LET text == TitleLocators(cards)[p_i + 1] IN
            /\ titles' = IF Trim(text) # <<>> THEN Append(titles, Trim(text)) ELSE titles
            /\ p_i' = p_i + 1
            /\ p_pc' = "getAllPostTitles:51"
       ELSE /\ p_pc' = "findPostContaining:134"
            /\ UNCHANGED <<titles, p_i>>
  /\ UNCHANGED <<cards, searchText, matchingIndex, p_result>>
  /\ UNCHANGED notPostVars

\* the mutant of FindPostIndex: the titles are compared as they are written
FindPostIndexCaseSensitive ==
  /\ p_pc = "findPostContaining:134"
  /\ LET found == {k \in 1 .. Len(titles) : Includes(titles[k], searchText)} IN
       matchingIndex' = IF found = {} THEN -1
                        ELSE (CHOOSE k \in found : \A j \in found : k <= j) - 1
  /\ IF matchingIndex' >= 0
       THEN p_pc' = "getPostByIndex:65" /\ UNCHANGED p_result
       ELSE p_pc' = "resolved" /\ p_result' = NullPost
  /\ UNCHANGED <<cards, searchText, titles, p_i>>
  /\ UNCHANGED notPostVars

\* matchingIndex = posts.findIndex(...); if (matchingIndex >= 0) ... return null
FindPostIndex ==
  /\ p_pc = "findPostContaining:134"
  /\ matchingIndex' = FindIndex(titles, searchText, 0)
  /\ IF matchingIndex' >= 0
       THEN p_pc' = "getPostByIndex:65" /\ UNCHANGED p_result
       ELSE p_pc' = "resolved" /\ p_result' = NullPost
  /\ UNCHANGED <<cards, searchText, titles, p_i>>
  /\ UNCHANGED notPostVars

\* getPostByIndex(matchingIndex): post = this.postCards.nth(index), the title
\* is the trimmed text of the first title link in that card; textContent()
\* times out when there is no such card or no title link in it
GetPostByIndex ==
  /\ p_pc = "getPostByIndex:65"
  /\ IF matchingIndex < Len(cards) /\ cards[matchingIndex + 1] # <<>>
       THEN /\ p_result' = Post(Trim(Head(cards[matchingIndex + 1])))
            /\ p_pc' = "resolved"
       ELSE /\ p_result' = TimedOut
            /\ p_pc' = "rejected"
  /\ UNCHANGED <<cards, searchText, titles, p_i, matchingIndex>>
  /\ UNCHANGED notPostVars

PostsNext ==
  \/ FindPostCall
  \/ GetAllPostTitlesIterate
  \/ FindPostIndex
  \/ GetPostByIndex

-----------------------------------------------------------------------------
(* BlogPostComponent.getPostByIndex *)

\* the most post cards the page of getPostByIndex holds, and the most tag
\* links a card holds
MaxPostCards == 2
MaxTags == 1

\* the first title link of a card: none, or its text and its href attribute
TitleElements ==
  {[present |-> FALSE, text |-> <<>>, href |-> Null],
   [present |-> TRUE, text |-> <<" ", "k">>, href |-> Attr(<<"/", "k">>)],
   [present |-> TRUE, text |-> <<"k">>, href |-> Null]}

\* a post card: its title link, its date and excerpt elements (Null when the
\* card has none, else the text), and the texts of its tag links
PostCardElements ==
  [titleElement : TitleElements,
   dateElement : {Null, Attr(<<"d", " ">>)},
   descElement : {Null, Attr(<<"x">>)},
   tagElements : SeqsUpTo({<<" ">>, <<" ", "t">>}, MaxTags)]

NoPost == [title |-> <<>>, date |-> <<>>, description |-> <<>>, tags |-> <<>>, url |-> Null]

PostDataIdle ==
  /\ g_pc = "idle"
  /\ g_cards = <<>>
  /\ g_index = 0
  /\ g_post = NoPost
  /\ g_tagCount = 0
  /\ g_i = 0

\* a page with at least one post card, and an index below getPostCount()
PostDataInit ==
  /\ g_pc = "idle"
  /\ g_cards \in SeqsUpTo(PostCardElements, MaxPostCards) \ {<<>>}
  /\ g_index \in 0 .. Len(g_cards) - 1
  /\ g_post = NoPost
  /\ g_tagCount = 0
  /\ g_i = 0

\* posts.nth(index)
NthPost == g_cards[g_index + 1]

\* getPostByIndex(index): the locators are built, nothing is read yet
GetPostByIndexCall ==
  /\ g_pc = "idle"
  /\ g_pc' = "getPostByIndex:73"
  /\ g_post' = NoPost
  /\ g_tagCount' = 0
  /\ g_i' = 0
  /\ UNCHANGED <<g_cards, g_index>>
  /\ UNCHANGED notPostDataVars

\* (await element.textContent())?.trim() ?? '': textContent() waits for the
\* element and rejects with a TimeoutError (actionTimeout) when the card has
\* none; the text of an element is never null
ReadText(from, to, element, field) ==
  /\ g_pc = from
  /\ IF element.present
       THEN /\ g_post' = [g_post EXCEPT ![field] = Trim(element.text)]
            /\ g_pc' = to
       ELSE /\ g_pc' = "rejected"
            /\ UNCHANGED g_post
  /\ UNCHANGED <<g_cards, g_index, g_tagCount, g_i>>
  /\ UNCHANGED notPostDataVars

\* const title = (await titleElement.textContent())?.trim() ?? ''
ReadTitle == ReadText("getPostByIndex:73", "getPostByIndex:74", NthPost.titleElement, "title")

\* const date = (await dateElement.textContent())?.trim() ?? ''
ReadDate == ReadText("getPostByIndex:74", "getPostByIndex:75", NthPost.dateElement, "date")

\* const description = (await descElement.textContent())?.trim() ?? ''
ReadDescription ==
  ReadText("getPostByIndex:75", "getPostByIndex:76", NthPost.descElement, "description")

\* const url = await titleElement.getAttribute('href'): the title link is
\* there, its text was read
ReadUrl ==
  /\ g_pc = "getPostByIndex:76"
  /\ g_post' = [g_post EXCEPT !.url = NthPost.titleElement.href]
  /\ g_pc' = "getPostByIndex:79"
  /\ UNCHANGED <<g_cards, g_index, g_tagCount, g_i>>
  /\ UNCHANGED notPostDataVars

\* const tags = []; const tagCount = await tagElements.count()
CountTags ==
  /\ g_pc = "getPostByIndex:79"
  /\ g_tagCount' = Len(NthPost.tagElements)
  /\ g_i' = 0
  /\ g_pc' = "getPostByIndex:80"
  /\ UNCHANGED <<g_cards, g_index, g_post>>
  /\ UNCHANGED notPostDataVars

\* one pass of the loop over the tags; past the loop,
\* return { title, date, description, tags, url }
ReadTag ==
  /\ g_pc = "getPostByIndex:80"
  /\ IF g_i < g_tagCount
       THEN LET tagText == NthPost.tagElements[g_i + 1] IN
            /\ g_post' = IF Trim(tagText) # <<>>
                           THEN [g_post EXCEPT !.tags = Append(@, Trim(tagText))]
                           ELSE g_post
            /\ g_i' = g_i + 1
            /\ g_pc' = "getPostByIndex:80"
       ELSE /\ g_pc' = "resolved"
            /\ UNCHANGED <<g_post, g_i>>
  /\ UNCHANGED <<g_cards, g_index, g_tagCount>>
  /\ UNCHANGED notPostDataVars

PostDataNext ==
  \/ GetPostByIndexCall
  \/ ReadTitle
  \/ ReadDate
  \/ ReadDescription
  \/ ReadUrl
  \/ CountTags
  \/ ReadTag

-----------------------------------------------------------------------------
(* HomePage.getVisibleSections *)

\* the components of the home page, in the order getVisibleSections asks them
SectionNames == <<"navigation", "profile", "blog-posts", "footer">>

\* how the container of a component is on the page: rendered, in the document
\* but not rendered (display: none), or not in the document
Rendered == {"visible", "hidden", "absent"}

SectionsIdle ==
  /\ s_pc = "idle"
  /\ components = [name \in {"navigation"} |-> "absent"]
  /\ sections = <<>>
  /\ s_asked = <<>>

SectionsInit ==
  /\ s_pc = "idle"
  /\ components \in [{SectionNames[k] : k \in 1 .. Len(SectionNames)} -> Rendered]
  /\ sections = <<>>
  /\ s_asked = <<>>

\* component.isVisible(): container.isVisible(), false at once for a container
\* that is hidden or missing
ComponentIsVisible(name) == components[name] = "visible"

\* getVisibleSections(): const sections = []
GetVisibleSectionsCall ==
  /\ s_pc = "idle"
  /\ s_pc' = "getVisibleSections:125"
  /\ sections' = <<>>
  /\ s_asked' = <<>>
  /\ UNCHANGED components
  /\ UNCHANGED notSectionVars

\* the mutant of PushIfVisible: the name is pushed whatever isVisible() answers
PushAlways(from, to, name) ==
  /\ s_pc = from
  /\ s_asked' = Append(s_asked, name)
  /\ sections' = Append(sections, name)
  /\ s_pc' = to
  /\ UNCHANGED components
  /\ UNCHANGED notSectionVars

\* if (await this.<component>.isVisible()) sections.push(name)
PushIfVisible(from, to, name) ==
  /\ s_pc = from
  /\ s_asked' = Append(s_asked, name)
  /\ sections' = IF ComponentIsVisible(name) THEN Append(sections, name) ELSE sections
  /\ s_pc' = to
  /\ UNCHANGED components
  /\ UNCHANGED notSectionVars

PushNavigation == PushIfVisible("getVisibleSections:125", "getVisibleSections:126", "navigation")
PushProfile == PushIfVisible("getVisibleSections:126", "getVisibleSections:127", "profile")
PushBlogPosts == PushIfVisible("getVisibleSections:127", "getVisibleSections:128", "blog-posts")
PushFooter == PushIfVisible("getVisibleSections:128", "getVisibleSections:130", "footer")

\* return sections
ReturnSections ==
  /\ s_pc = "getVisibleSections:130"
  /\ s_pc' = "resolved"
  /\ UNCHANGED <<components, sections, s_asked>>
  /\ UNCHANGED notSectionVars

SectionsNext ==
  \/ GetVisibleSectionsCall
  \/ PushNavigation
  \/ PushProfile
  \/ PushBlogPosts
  \/ PushFooter
  \/ ReturnSections

-----------------------------------------------------------------------------
(* scrollFullPage *)

\* the heights of the page are multiples of HeightStep up to MaxHeightSteps of
\* them; while the page is scrolled its height grows at most MaxGrowths times,
\* by GrowthSteps steps each time
MaxHeightSteps == 8
MaxGrowths == 2
HeightStep == 50
GrowthSteps == 3

\* const distance = 100
distance == 100

\* window.innerHeight: the page scrolls no further than its height less this
InnerHeight == 100

ScrollIdle ==
  /\ sc_pc = "idle"
  /\ scrollHeight = 0
  /\ growths = 0
  /\ scrollY = 0
  /\ totalHeight = 0
  /\ timer = FALSE
  /\ ticks = 0

ScrollInit ==
  /\ sc_pc = "idle"
  /\ scrollHeight \in {h * HeightStep : h \in 0 .. MaxHeightSteps}
  /\ growths = 0
  /\ scrollY = 0
  /\ totalHeight = 0
  /\ timer = FALSE
  /\ ticks = 0

\* page.evaluate(...): let totalHeight = 0; timer = setInterval(..., 100)
ScrollCall ==
  /\ sc_pc = "idle"
  /\ sc_pc' = "evaluating"
  /\ totalHeight' = 0
  /\ timer' = TRUE
  /\ ticks' = 0
  /\ UNCHANGED <<scrollHeight, growths, scrollY>>
  /\ UNCHANGED notScrollVars

\* window.scrollBy(0, distance)
ScrollBy(y, height) ==
  IF y + distance <= height - InnerHeight THEN y + distance
  ELSE IF height > InnerHeight THEN height - InnerHeight
  ELSE 0

\* the mutant of ScrollTick: the timer is cleared only past the height
ScrollTickPast ==
  /\ sc_pc = "evaluating"
  /\ timer
  /\ scrollY' = ScrollBy(scrollY, scrollHeight)
  /\ totalHeight' = totalHeight + distance
  /\ ticks' = ticks + 1
  /\ IF totalHeight' > scrollHeight
       THEN timer' = FALSE /\ sc_pc' = "resolved"
       ELSE UNCHANGED <<timer, sc_pc>>
  /\ UNCHANGED <<scrollHeight, growths>>
  /\ UNCHANGED notScrollVars

\* the interval callback: scrollHeight is read, the window is scrolled,
\* totalHeight += distance; if (totalHeight >= scrollHeight) the timer is
\* cleared and the promise resolved
ScrollTick ==
  /\ sc_pc = "evaluating"
  /\ timer
  /\ scrollY' = ScrollBy(scrollY, scrollHeight)
  /\ totalHeight' = totalHeight + distance
  /\ ticks' = ticks + 1
  /\ IF totalHeight' >= scrollHeight
       THEN timer' = FALSE /\ sc_pc' = "resolved"
       ELSE UNCHANGED <<timer, sc_pc>>
  /\ UNCHANGED <<scrollHeight, growths>>
  /\ UNCHANGED notScrollVars

\* the page grows between two ticks (content loaded on scroll)
PageGrows ==
  /\ sc_pc = "evaluating"
  /\ growths < MaxGrowths
  /\ scrollHeight' = scrollHeight + GrowthSteps * HeightStep
  /\ growths' = growths + 1
  /\ UNCHANGED <<sc_pc, scrollY, totalHeight, timer, ticks>>
  /\ UNCHANGED notScrollVars

ScrollNext ==
  \/ ScrollCall
  \/ ScrollTick
  \/ PageGrows

\* the helpers that are not called
LaterIdle == PostDataIdle /\ SectionsIdle /\ ScrollIdle

-----------------------------------------------------------------------------
(* The test data: export const ... as const *)

TestData ==
  [SiteMetadata |-> [title |-> "QAbbalah", baseUrl |-> "https://othrondir.github.io/QAbbalah/"],
   NavigationLinks |-> [home |-> "/QAbbalah/", posts |-> "/posts/",
                        categories |-> "/categories/", tags |-> "/tags/", about |-> "/about/"],
   SocialLinks |-> [github |-> "github\\.com", linkedin |-> "linkedin\\.com"],
   ExpectedPosts |-> <<"k6", "Github", "ISTQB">>,
   Viewports |-> [mobile |-> [width |-> 375, height |-> 667],
                  tablet |-> [width |-> 768, height |-> 1024],
                  desktop |-> [width |-> 1280, height |-> 720]],
   Timeouts |-> [short |-> 5000, medium |-> 10000, long |-> 30000, veryLong |-> 60000],
   TestTags |-> [smoke |-> "@smoke", regression |-> "@regression"]]

\* the module has been evaluated: the records hold what it exports
DataLoaded == data = TestData

-----------------------------------------------------------------------------
(* The browser page, the site, and the tests that drive the page objects *)

\* the most post cards the home page of the model shows
MaxPosts == 2

Tests == {"t1", "t2"}
Viewports == {"desktop", "tablet", "mobile"}
NavLinks == {"home", "posts", "categories", "tags", "about"}
SitePages == NavLinks \cup {"post"}

\* What the site under test is, for a whole run: whether the masthead has a
\* .site-logo, whether #main and the footer are rendered, whether an RSS link
\* is rendered, and how many .archive__item cards the listings show.
Sites ==
  [logo : BOOLEAN, main : BOOLEAN, footer : {"visible", "hidden", "absent"},
   rss : BOOLEAN, posts : 0 .. MaxPosts]

\* page.url() as its path segments under the host
UrlPath(url) ==
  CASE url = "blank" -> <<>>
    [] url = "home" -> <<"QAbbalah">>
    [] url = "posts" -> <<"QAbbalah", "year-archive">>
    [] url = "categories" -> <<"QAbbalah", "categories">>
    [] url = "tags" -> <<"QAbbalah", "tags">>
    [] url = "about" -> <<"QAbbalah", "about">>
    [] url = "post" -> <<"QAbbalah", "posts", "k6">>
    [] url = "notfound" -> <<"invalid-path">>

\* expect(page).toHaveURL(/about/i)
MatchesAbout(url) == \E k \in 1 .. Len(UrlPath(url)) : UrlPath(url)[k] \in {"about", "About"}

\* expect(page).toHaveURL(/QAbbalah\/?$/)
MatchesHome(url) == UrlPath(url) # <<>> /\ UrlPath(url)[Len(UrlPath(url))] = "QAbbalah"

\* The greedy navigation: the links that do not fit the masthead are moved to
\* .hidden-links, the trailing ones first, and the toggle shows when there
\* are any.
HiddenLinks(viewport) ==
  CASE viewport = "desktop" -> {}
    [] viewport = "tablet" -> {"tags", "about"}
    [] viewport = "mobile" -> NavLinks

OnSite(p) == p.url \in SitePages

\* the .archive__item cards of the document
PostCards(s, p) == IF p.url \in {"home", "posts", "categories", "tags"} THEN s.posts ELSE 0

\* locator.isVisible(): the element is attached and rendered
Visible(s, p, target) ==
  /\ OnSite(p)
  /\ CASE target = "logo" -> s.logo
       [] target = "toggle" -> HiddenLinks(p.viewport) # {}
       [] target \in NavLinks -> target \notin HiddenLinks(p.viewport) \/ p.menuOpen
       [] target = "main" -> s.main
       [] target = "footer" -> s.footer = "visible"
       [] target = "rss" -> s.rss /\ s.footer = "visible"
       [] target = "postTitle" -> PostCards(s, p) >= 1

\* a new document: the menu is collapsed again
Load(p, url) == [p EXCEPT !.url = url, !.menuOpen = FALSE]

\* what a click that went through does to the page
ClickEffect(p, target) ==
  CASE target = "logo" -> Load(p, "home")
    [] target = "toggle" -> [p EXCEPT !.menuOpen = ~p.menuOpen]
    [] target \in NavLinks -> Load(p, target)
    [] target = "postTitle" -> Load(p, "post")

BlankPage == [url |-> "blank", viewport |-> "desktop", menuOpen |-> FALSE]

\* one call into the automation library, and how it ended
Ev(op, on, result) == [op |-> op, on |-> on, result |-> result]

\* what a method returned
NoValue == [kind |-> "void", number |-> 0, bool |-> FALSE, attr |-> Null, locator |-> <<>>]
Number(n) == [NoValue EXCEPT !.kind = "number", !.number = n]
Bool(b) == [NoValue EXCEPT !.kind = "boolean", !.bool = b]
AttrValue(a) == [NoValue EXCEPT !.kind = "attr", !.attr = a]
\* a Locator: the page it was built on and the field that holds it
LocatorValue(p, field) == [NoValue EXCEPT !.kind = "locator", !.locator = <<p, field>>]

NoCall == [method |-> "none", url |-> "blank", menuOpen |-> FALSE]

NavIdle ==
  /\ site = [logo |-> FALSE, main |-> TRUE, footer |-> "visible", rss |-> TRUE, posts |-> 1]
  /\ page = [t \in Tests |-> BlankPage]
  /\ bound = [t \in Tests |-> "none"]
  /\ t_pc = [t \in Tests |-> "off"]
  /\ call = [t \in Tests |-> NoCall]
  /\ trace = [t \in Tests |-> <<>>]
  /\ ret = [t \in Tests |-> NoValue]
  /\ scrolled = [t \in Tests |-> FALSE]

\* the page object's this.page
Pg(t) == page[bound[t]]

\* the mutant of PageOfTest: one page shared by all the tests
PageOfTestShared(t) == "t1"

\* the { page } fixture: the test's own page
PageOfTest(t) == t

\* the mutant of Fixtures: the constructor opens the page it is given
FixturesNavigate(t) ==
  /\ t_pc[t] = "new"
  /\ bound' = [bound EXCEPT ![t] = PageOfTest(t)]
  /\ page' = [page EXCEPT ![PageOfTest(t)].url = "home"]
  /\ trace' = [trace EXCEPT ![t] = Append(@, [op |-> "goto", on |-> "", result |-> "ok"])]
  /\ t_pc' = [t_pc EXCEPT ![t] = "idle"]
  /\ UNCHANGED <<site, call, ret, scrolled>>
  /\ UNCHANGED notNavVars

\* base.extend: homePage = new HomePage(page), aboutPage, postPage; the
\* constructors only build locators
Fixtures(t) ==
  /\ t_pc[t] = "new"
  /\ bound' = [bound EXCEPT ![t] = PageOfTest(t)]
  /\ t_pc' = [t_pc EXCEPT ![t] = "idle"]
  /\ UNCHANGED <<site, page, call, trace, ret, scrolled>>
  /\ UNCHANGED notNavVars

\* the test calls a method of its page objects: the method's first line is next
Invoke(t, method, first) ==
  /\ t_pc[t] = "idle"
  /\ call' = [call EXCEPT ![t] =
                [method |-> method, url |-> Pg(t).url, menuOpen |-> Pg(t).menuOpen]]
  /\ trace' = [trace EXCEPT ![t] = <<>>]
  /\ ret' = [ret EXCEPT ![t] = NoValue]
  /\ t_pc' = [t_pc EXCEPT ![t] = first]
  /\ UNCHANGED <<site, page, bound, scrolled>>
  /\ UNCHANGED notNavVars

\* a library call that resolves and leaves the page as it is
Resolves(t, from, to, ev) ==
  /\ t_pc[t] = from
  /\ t_pc' = [t_pc EXCEPT ![t] = to]
  /\ trace' = [trace EXCEPT ![t] = Append(@, ev)]
  /\ UNCHANGED <<site, page, bound, call, ret, scrolled>>
  /\ UNCHANGED notNavVars

\* a library call that resolves, the method returning value right after
Returns(t, from, ev, value) ==
  /\ t_pc[t] = from
  /\ t_pc' = [t_pc EXCEPT ![t] = "idle"]
  /\ trace' = [trace EXCEPT ![t] = Append(@, ev)]
  /\ ret' = [ret EXCEPT ![t] = value]
  /\ UNCHANGED <<site, page, bound, call, scrolled>>
  /\ UNCHANGED notNavVars

\* a library call that rejects (TimeoutError): the method rejects, the test ends
Rejects(t, from, ev) ==
  /\ t_pc[t] = from
  /\ t_pc' = [t_pc EXCEPT ![t] = "failed"]
  /\ trace' = [trace EXCEPT ![t] = Append(@, ev)]
  /\ UNCHANGED <<site, page, bound, call, ret, scrolled>>
  /\ UNCHANGED notNavVars

\* await locator.click(): the click goes through once the element is visible,
\* and times out when it never is
Click(t, from, to, target) ==
  /\ t_pc[t] = from
  /\ IF Visible(site, Pg(t), target)
       THEN /\ t_pc' = [t_pc EXCEPT ![t] = to]
            /\ trace' = [trace EXCEPT ![t] = Append(@, Ev("click", target, "ok"))]
            /\ page' = [page EXCEPT ![bound[t]] = ClickEffect(@, target)]
            /\ scrolled' = [scrolled EXCEPT ![t] = @ /\ target = "toggle"]
            /\ UNCHANGED <<site, bound, call, ret>>
            /\ UNCHANGED notNavVars
       ELSE Rejects(t, from, Ev("click", target, "timeout"))

\* if (await locator.isVisible()) ... else ...
IfVisible(t, from, onTrue, onFalse, target) ==
  /\ t_pc[t] = from
  /\ IF Visible(site, Pg(t), target)
       THEN Resolves(t, from, onTrue, Ev("isVisible", target, "true"))
       ELSE Resolves(t, from, onFalse, Ev("isVisible", target, "false"))

\* the mutant of SetViewportSize: the test turns the device by swapping the
\* width and height of the record it read them from
SetViewportSizeTurnsData(t, viewport) ==
  /\ t_pc[t] = "idle"
  /\ Pg(t).viewport # viewport
  /\ page' = [page EXCEPT ![bound[t]].viewport = viewport]
  /\ data' = [data EXCEPT !.Viewports[viewport] =
                 [width |-> @.height, height |-> @.width]]
  /\ UNCHANGED <<site, bound, t_pc, call, trace, ret, scrolled>>
  /\ UNCHANGED <<retryVars, linkVars, imageVars, a11yVars, postVars, laterVars>>

\* await page.setViewportSize(...), called by the test itself
SetViewportSize(t, viewport) ==
  /\ t_pc[t] = "idle"
  /\ Pg(t).viewport # viewport
  /\ page' = [page EXCEPT ![bound[t]].viewport = viewport]
  /\ UNCHANGED <<site, bound, t_pc, call, trace, ret, scrolled>>
  /\ UNCHANGED notNavVars

(* HomePage.navigate: BasePage.navigate, then waitForHomePageContent *)

CallNavigate(t) == Invoke(t, "navigate", "navigate:193")

\* await page.goto('/invalid-path'), called by the test itself: the server
\* answers 404 and goto resolves on its error page
GotoInvalidPath(t) ==
  /\ t_pc[t] = "idle"
  /\ call' = [call EXCEPT ![t] =
                [method |-> "page.goto", url |-> Pg(t).url, menuOpen |-> Pg(t).menuOpen]]
  /\ trace' = [trace EXCEPT ![t] = <<Ev("goto", "invalid-path", "ok")>>]
  /\ ret' = [ret EXCEPT ![t] = NoValue]
  /\ page' = [page EXCEPT ![bound[t]] = Load(@, "notfound")]
  /\ scrolled' = [scrolled EXCEPT ![t] = FALSE]
  /\ UNCHANGED <<site, bound, t_pc>>
  /\ UNCHANGED notNavVars

\* the mutant of NavigateGoto: the empty pageUrl is resolved against the
\* document the page shows, not against the base URL
NavigateGotoRelative(t) ==
  /\ t_pc[t] = "navigate:193"
  /\ t_pc' = [t_pc EXCEPT ![t] = "navigate:201"]
  /\ trace' = [trace EXCEPT ![t] = Append(@, Ev("goto", "home", "ok"))]
  /\ page' = [page EXCEPT ![bound[t]] =
                 Load(@, IF @.url = "notfound" THEN "notfound" ELSE "home")]
  /\ scrolled' = [scrolled EXCEPT ![t] = FALSE]
  /\ UNCHANGED <<site, bound, call, ret>>
  /\ UNCHANGED notNavVars

\* await this.page.goto(this.pageUrl), pageUrl = ''
NavigateGoto(t) ==
  /\ t_pc[t] = "navigate:193"
  /\ t_pc' = [t_pc EXCEPT ![t] = "navigate:201"]
  /\ trace' = [trace EXCEPT ![t] = Append(@, Ev("goto", "home", "ok"))]
  /\ page' = [page EXCEPT ![bound[t]] = Load(@, "home")]
  /\ scrolled' = [scrolled EXCEPT ![t] = FALSE]
  /\ UNCHANGED <<site, bound, call, ret>>
  /\ UNCHANGED notNavVars

\* page.goto rejects: the site does not answer
NavigateGotoRejects(t) == Rejects(t, "navigate:193", Ev("goto", "home", "error"))

\* await this.page.waitForLoadState('domcontentloaded')
NavigateDomLoaded(t) ==
  Resolves(t, "navigate:201", "navigate:202", Ev("waitForLoadState", "domcontentloaded", "ok"))

\* await this.page.waitForLoadState('networkidle')
NavigateNetworkIdle(t) ==
  Resolves(t, "navigate:202", "navigate:58", Ev("waitForLoadState", "networkidle", "ok"))

\* the mutant of NavigateWaitForMain: the timeout is swallowed, as it is in
\* getPostCount
NavigateWaitForMainCatches(t) ==
  /\ t_pc[t] = "navigate:58"
  /\ Returns(t, "navigate:58",
             Ev("waitFor", "main", IF Visible(site, Pg(t), "main") THEN "ok" ELSE "caught"),
             NoValue)

\* await this.mainContent.waitFor({ state: 'visible', timeout: 15000 })
NavigateWaitForMain(t) ==
  /\ t_pc[t] = "navigate:58"
  /\ IF Visible(site, Pg(t), "main")
       THEN Returns(t, "navigate:58", Ev("waitFor", "main", "ok"), NoValue)
       ELSE Rejects(t, "navigate:58", Ev("waitFor", "main", "timeout"))

(* AboutPage.navigate: BasePage.navigate with pageUrl 'about/', then
   waitForAboutContent *)

CallAboutNavigate(t) == Invoke(t, "aboutPage.navigate", "aboutPage.navigate:193")

\* await this.page.goto(this.pageUrl): the site answers or it does not
AboutNavigateGoto(t, answers) ==
  /\ t_pc[t] = "aboutPage.navigate:193"
  /\ IF answers
       THEN /\ t_pc' = [t_pc EXCEPT ![t] = "aboutPage.navigate:201"]
            /\ trace' = [trace EXCEPT ![t] = Append(@, Ev("goto", "about", "ok"))]
            /\ page' = [page EXCEPT ![bound[t]] = Load(@, "about")]
            /\ scrolled' = [scrolled EXCEPT ![t] = FALSE]
            /\ UNCHANGED <<site, bound, call, ret>>
            /\ UNCHANGED notNavVars
       ELSE Rejects(t, "aboutPage.navigate:193", Ev("goto", "about", "error"))

AboutNavigateDomLoaded(t) ==
  Resolves(t, "aboutPage.navigate:201", "aboutPage.navigate:202",
           Ev("waitForLoadState", "domcontentloaded", "ok"))

AboutNavigateNetworkIdle(t) ==
  Resolves(t, "aboutPage.navigate:202", "aboutPage.navigate:50",
           Ev("waitForLoadState", "networkidle", "ok"))

\* await this.aboutContent.waitFor({ state: 'visible', timeout: 15000 }):
\* resolves when the one element the locator matches is visible, rejects
\* when none is or when it matches several
AboutNavigateWaitForContent(t, visible) ==
  /\ t_pc[t] = "aboutPage.navigate:50"
  /\ IF visible
       THEN Returns(t, "aboutPage.navigate:50", Ev("waitFor", "aboutContent", "ok"), NoValue)
       ELSE Rejects(t, "aboutPage.navigate:50", Ev("waitFor", "aboutContent", "error"))

(* NavigationComponent.goToHome *)

CallGoToHome(t) == Invoke(t, "goToHome", "goToHome:53")

\* if (await logo.isVisible())
GoToHomeIfLogo(t) == IfVisible(t, "goToHome:53", "goToHome:54", "goToHome:55", "logo")

\* the mutant of GoToHomeClickLogo: after the logo the home link is clicked
\* as well
GoToHomeClickLogoFallsThrough(t) == Click(t, "goToHome:54", "goToHome:60", "logo")

\* await logo.click()
GoToHomeClickLogo(t) == Click(t, "goToHome:54", "goToHome:62", "logo")

\* the mutant of GoToHomeIfToggle: the menu toggle is never looked for
GoToHomeNoToggleBranch(t) ==
  Resolves(t, "goToHome:55", "goToHome:60", Ev("isVisible", "toggle", "false"))

\* else if (await this.mobileMenuToggle.isVisible())
GoToHomeIfToggle(t) == IfVisible(t, "goToHome:55", "goToHome:56", "goToHome:60", "toggle")

\* await this.mobileMenuToggle.click()
GoToHomeClickToggle(t) == Click(t, "goToHome:56", "goToHome:57", "toggle")

\* await this.page.waitForTimeout(300)
GoToHomeTimeout(t) ==
  Resolves(t, "goToHome:57", "goToHome:58", Ev("waitForTimeout", "300", "ok"))

\* await this.homeLink.click(), after the toggle
GoToHomeClickHomeInMenu(t) == Click(t, "goToHome:58", "goToHome:62", "home")

\* await this.homeLink.click(), in the else branch
GoToHomeClickHome(t) == Click(t, "goToHome:60", "goToHome:62", "home")

\* await this.page.waitForLoadState('networkidle')
GoToHomeNetworkIdle(t) ==
  Returns(t, "goToHome:62", Ev("waitForLoadState", "networkidle", "ok"), NoValue)

(* NavigationComponent.goToPosts, goToCategories, goToTags *)

GoToMethod(link) ==
  CASE link = "posts" -> "goToPosts"
    [] link = "categories" -> "goToCategories"
    [] link = "tags" -> "goToTags"

GoToClickLine(link) ==
  CASE link = "posts" -> "goToPosts:69"
    [] link = "categories" -> "goToCategories:77"
    [] link = "tags" -> "goToTags:85"

GoToIdleLine(link) ==
  CASE link = "posts" -> "goToPosts:70"
    [] link = "categories" -> "goToCategories:78"
    [] link = "tags" -> "goToTags:86"

CallGoTo(t, link) == Invoke(t, GoToMethod(link), GoToClickLine(link))

\* await this.postsLink.click() (categoriesLink, tagsLink)
GoToClick(t, link) == Click(t, GoToClickLine(link), GoToIdleLine(link), link)

\* await this.page.waitForLoadState('networkidle')
GoToNetworkIdle(t, link) ==
  Returns(t, GoToIdleLine(link), Ev("waitForLoadState", "networkidle", "ok"), NoValue)

(* NavigationComponent.goToAbout *)

CallGoToAbout(t) == Invoke(t, "goToAbout", "goToAbout:94")

\* the mutant of GoToAboutIfToggle: the menu toggle is never looked for
GoToAboutNoToggleBranch(t) ==
  Resolves(t, "goToAbout:94", "goToAbout:98", Ev("isVisible", "toggle", "false"))

\* the mutant of GoToAboutIfToggle: the branch is taken on the viewport's
\* width, no locator being asked
GoToAboutByViewport(t) ==
  /\ t_pc[t] = "goToAbout:94"
  /\ Resolves(t, "goToAbout:94",
              IF Pg(t).viewport = "desktop" THEN "goToAbout:98" ELSE "goToAbout:95",
              Ev("viewportSize", "page", "ok"))

\* if (await this.mobileMenuToggle.isVisible())
GoToAboutIfToggle(t) == IfVisible(t, "goToAbout:94", "goToAbout:95", "goToAbout:98", "toggle")

\* await this.mobileMenuToggle.click()
GoToAboutClickToggle(t) == Click(t, "goToAbout:95", "goToAbout:96", "toggle")

\* await this.page.waitForTimeout(300)
GoToAboutTimeout(t) ==
  Resolves(t, "goToAbout:96", "goToAbout:98", Ev("waitForTimeout", "300", "ok"))

\* await this.aboutLink.click()
GoToAboutClickAbout(t) == Click(t, "goToAbout:98", "goToAbout:99", "about")

\* await this.page.waitForLoadState('networkidle')
GoToAboutNetworkIdle(t) ==
  Returns(t, "goToAbout:99", Ev("waitForLoadState", "networkidle", "ok"), NoValue)

(* NavigationComponent.toggleMobileMenu *)

CallToggleMobileMenu(t) == Invoke(t, "toggleMobileMenu", "toggleMobileMenu:124")

\* if (await this.mobileMenuToggle.isVisible()), else return
ToggleMobileMenuIfToggle(t) ==
  IfVisible(t, "toggleMobileMenu:124", "toggleMobileMenu:125", "idle", "toggle")

\* await this.mobileMenuToggle.click()
ToggleMobileMenuClick(t) == Click(t, "toggleMobileMenu:125", "idle", "toggle")

(* FooterComponent.scrollIntoView, isVisible, getRssFeedUrl *)

CallScrollIntoView(t) == Invoke(t, "footer.scrollIntoView", "scrollIntoView:116")

\* the mutant of FooterScrollIntoView: the timeout is swallowed
FooterScrollIntoViewCatches(t) ==
  /\ t_pc[t] = "scrollIntoView:116"
  /\ t_pc' = [t_pc EXCEPT ![t] = "idle"]
  /\ trace' = [trace EXCEPT ![t] = Append(@, Ev("scrollIntoViewIfNeeded", "footer", "ok"))]
  /\ scrolled' = [scrolled EXCEPT ![t] = TRUE]
  /\ UNCHANGED <<site, page, bound, call, ret>>
  /\ UNCHANGED notNavVars

\* await this.footerContainer.scrollIntoViewIfNeeded(): resolves once the
\* element is rendered and scrolled to, times out when it never is
FooterScrollIntoView(t) ==
  /\ t_pc[t] = "scrollIntoView:116"
  /\ IF Visible(site, Pg(t), "footer")
       THEN /\ t_pc' = [t_pc EXCEPT ![t] = "idle"]
            /\ trace' = [trace EXCEPT ![t] =
                           Append(@, Ev("scrollIntoViewIfNeeded", "footer", "ok"))]
            /\ scrolled' = [scrolled EXCEPT ![t] = TRUE]
            /\ UNCHANGED <<site, page, bound, call, ret>>
            /\ UNCHANGED notNavVars
       ELSE Rejects(t, "scrollIntoView:116",
                    Ev("scrollIntoViewIfNeeded", "footer", "timeout"))

CallFooterIsVisible(t) == Invoke(t, "footer.isVisible", "footer.isVisible:31")

\* return this.footerContainer.isVisible()
FooterIsVisible(t) ==
  Returns(t, "footer.isVisible:31",
          Ev("isVisible", "footer", IF Visible(site, Pg(t), "footer") THEN "true" ELSE "false"),
          Bool(Visible(site, Pg(t), "footer")))

CallGetRssFeedUrl(t) == Invoke(t, "getRssFeedUrl", "getRssFeedUrl:61")

\* if (await this.rssLink.isVisible()), else return null
GetRssFeedUrlIfVisible(t) ==
  /\ t_pc[t] = "getRssFeedUrl:61"
  /\ IF Visible(site, Pg(t), "rss")
       THEN Resolves(t, "getRssFeedUrl:61", "getRssFeedUrl:62",
                     Ev("isVisible", "rss", "true"))
       ELSE Returns(t, "getRssFeedUrl:61", Ev("isVisible", "rss", "false"),
                    AttrValue(Null))

\* return this.rssLink.getAttribute('href')
GetRssFeedUrlHref(t) ==
  Returns(t, "getRssFeedUrl:62", Ev("getAttribute", "rss", "ok"),
          AttrValue(Attr(<<"/", "f", "e", "e", "d", ".", "x", "m", "l">>)))

(* HomePage.getRecentPostsCount = BlogPostComponent.getPostCount, clickPostByIndex(0) *)

CallGetRecentPostsCount(t) == Invoke(t, "getRecentPostsCount", "getPostCount:39")

\* await this.postsContainer.waitFor({ state: 'visible', timeout: 10000 }).catch(() => {})
GetPostCountWaitFor(t) ==
  Resolves(t, "getPostCount:39", "getPostCount:40",
           Ev("waitFor", "main", IF Visible(site, Pg(t), "main") THEN "ok" ELSE "caught"))

\* the mutant of CountPostCards: the containers are counted, not the cards
CountContainers(s, p) == IF OnSite(p) THEN 1 ELSE 0

\* this.postCards.count()
CountPostCards(s, p) == PostCards(s, p)

\* return this.postCards.count()
GetPostCountCount(t) ==
  Returns(t, "getPostCount:40", Ev("count", "postCards", "ok"),
          Number(CountPostCards(site, Pg(t))))

CallClickPostByIndex(t) == Invoke(t, "clickPostByIndex", "clickPostByIndex:104")

\* await posts.nth(index).click(), index = 0
ClickPostByIndexClick(t) ==
  Click(t, "clickPostByIndex:104", "clickPostByIndex:105", "postTitle")

\* await this.page.waitForLoadState('networkidle')
ClickPostByIndexNetworkIdle(t) ==
  Returns(t, "clickPostByIndex:105", Ev("waitForLoadState", "networkidle", "ok"), NoValue)

(* getMainContentLocator, getHomeLinkLocator: return this.<field> *)

LocatorFields == {"mainContent", "homeLink"}

GetLocator(t, field) ==
  /\ t_pc[t] = "idle"
  /\ call' = [call EXCEPT ![t] =
                [method |-> "getLocator", url |-> Pg(t).url, menuOpen |-> Pg(t).menuOpen]]
  /\ trace' = [trace EXCEPT ![t] = <<>>]
  /\ ret' = [ret EXCEPT ![t] = LocatorValue(bound[t], field)]
  /\ UNCHANGED <<site, page, bound, t_pc, scrolled>>
  /\ UNCHANGED notNavVars

(* One test driving its page objects *)

GoToLinks == {"posts", "categories", "tags"}

NavInit ==
  /\ site \in Sites
  /\ page = [t \in Tests |-> BlankPage]
  /\ bound = [t \in Tests |-> "none"]
  /\ t_pc = [t \in Tests |-> IF t = "t1" THEN "new" ELSE "off"]
  /\ call = [t \in Tests |-> NoCall]
  /\ trace = [t \in Tests |-> <<>>]
  /\ ret = [t \in Tests |-> NoValue]
  /\ scrolled = [t \in Tests |-> FALSE]

NavNext ==
  \E t \in Tests :
    \/ Fixtures(t)
    \/ \E v \in Viewports : SetViewportSize(t, v)
    \/ \E field \in LocatorFields : GetLocator(t, field)
    \/ GotoInvalidPath(t)
    \/ CallAboutNavigate(t)
    \/ \E answers \in BOOLEAN : AboutNavigateGoto(t, answers)
    \/ AboutNavigateDomLoaded(t)
    \/ AboutNavigateNetworkIdle(t)
    \/ \E visible \in BOOLEAN : AboutNavigateWaitForContent(t, visible)
    \/ CallNavigate(t)
    \/ NavigateGoto(t)
    \/ NavigateGotoRejects(t)
    \/ NavigateDomLoaded(t)
    \/ NavigateNetworkIdle(t)
    \/ NavigateWaitForMain(t)
    \/ CallGoToHome(t)
    \/ GoToHomeIfLogo(t)
    \/ GoToHomeClickLogo(t)
    \/ GoToHomeIfToggle(t)
    \/ GoToHomeClickToggle(t)
    \/ GoToHomeTimeout(t)
    \/ GoToHomeClickHomeInMenu(t)
    \/ GoToHomeClickHome(t)
    \/ GoToHomeNetworkIdle(t)
    \/ \E link \in GoToLinks : CallGoTo(t, link)
    \/ \E link \in GoToLinks : GoToClick(t, link)
    \/ \E link \in GoToLinks : GoToNetworkIdle(t, link)
    \/ CallGoToAbout(t)
    \/ GoToAboutIfToggle(t)
    \/ GoToAboutClickToggle(t)
    \/ GoToAboutTimeout(t)
    \/ GoToAboutClickAbout(t)
    \/ GoToAboutNetworkIdle(t)
    \/ CallToggleMobileMenu(t)
    \/ ToggleMobileMenuIfToggle(t)
    \/ ToggleMobileMenuClick(t)
    \/ CallScrollIntoView(t)
    \/ FooterScrollIntoView(t)
    \/ CallFooterIsVisible(t)
    \/ FooterIsVisible(t)
    \/ CallGetRssFeedUrl(t)
    \/ GetRssFeedUrlIfVisible(t)
    \/ GetRssFeedUrlHref(t)
    \/ CallGetRecentPostsCount(t)
    \/ GetPostCountWaitFor(t)
    \/ GetPostCountCount(t)
    \/ CallClickPostByIndex(t)
    \/ ClickPostByIndexClick(t)
    \/ ClickPostByIndexNetworkIdle(t)

(* Two tests running at once, each on its own page objects *)

ParSites ==
  {s \in Sites : s.main /\ s.footer = "visible" /\ s.rss /\ s.posts = 1}

ParInit ==
  /\ site \in ParSites
  /\ page = [t \in Tests |-> BlankPage]
  /\ bound = [t \in Tests |-> "none"]
  /\ t_pc = [t \in Tests |-> "new"]
  /\ call = [t \in Tests |-> NoCall]
  /\ trace = [t \in Tests |-> <<>>]
  /\ ret = [t \in Tests |-> NoValue]
  /\ scrolled = [t \in Tests |-> FALSE]

ParNext ==
  \E t \in Tests :
    \/ Fixtures(t)
    \/ SetViewportSize(t, "mobile")
    \/ CallNavigate(t)
    \/ NavigateGoto(t)
    \/ NavigateGotoRejects(t)
    \/ NavigateDomLoaded(t)
    \/ NavigateNetworkIdle(t)
    \/ NavigateWaitForMain(t)
    \/ CallGoToHome(t)
    \/ GoToHomeIfLogo(t)
    \/ GoToHomeClickLogo(t)
    \/ GoToHomeIfToggle(t)
    \/ GoToHomeClickToggle(t)
    \/ GoToHomeTimeout(t)
    \/ GoToHomeClickHomeInMenu(t)
    \/ GoToHomeClickHome(t)
    \/ GoToHomeNetworkIdle(t)
    \/ CallGoToAbout(t)
    \/ GoToAboutIfToggle(t)
    \/ GoToAboutClickToggle(t)
    \/ GoToAboutTimeout(t)
    \/ GoToAboutClickAbout(t)
    \/ GoToAboutNetworkIdle(t)
    \/ CallToggleMobileMenu(t)
    \/ ToggleMobileMenuIfToggle(t)
    \/ ToggleMobileMenuClick(t)
    \/ CallGetRssFeedUrl(t)
    \/ GetRssFeedUrlIfVisible(t)
    \/ GetRssFeedUrlHref(t)

-----------------------------------------------------------------------------
(* The specifications: one per helper, the other helpers' state left alone *)

InitRetry == RetryInit /\ LinksIdle /\ ImagesIdle /\ NavIdle /\ A11yIdle /\ PostsIdle /\ LaterIdle /\ DataLoaded
SpecRetry == InitRetry /\ [][RetryNext]_vars

InitLinks == LinksInit /\ RetryInit /\ ImagesIdle /\ NavIdle /\ A11yIdle /\ PostsIdle /\ LaterIdle /\ DataLoaded
SpecLinks == InitLinks /\ [][LinksNext]_vars

InitImages == ImagesInit /\ RetryInit /\ LinksIdle /\ NavIdle /\ A11yIdle /\ PostsIdle /\ LaterIdle /\ DataLoaded
SpecImages == InitImages /\ [][ImagesNext]_vars

InitNav == NavInit /\ RetryInit /\ LinksIdle /\ ImagesIdle /\ A11yIdle /\ PostsIdle /\ LaterIdle /\ DataLoaded
SpecNav == InitNav /\ [][NavNext]_vars

InitPar == ParInit /\ RetryInit /\ LinksIdle /\ ImagesIdle /\ A11yIdle /\ PostsIdle /\ LaterIdle /\ DataLoaded
SpecPar == InitPar /\ [][ParNext]_vars

InitPosts ==
  PostsInit /\ RetryInit /\ LinksIdle /\ ImagesIdle /\ NavIdle /\ A11yIdle /\ LaterIdle /\ DataLoaded
SpecPosts == InitPosts /\ [][PostsNext]_vars

InitPostData ==
  /\ PostDataInit /\ SectionsIdle /\ ScrollIdle
  /\ RetryInit /\ LinksIdle /\ ImagesIdle /\ NavIdle /\ A11yIdle /\ PostsIdle /\ DataLoaded
SpecPostData == InitPostData /\ [][PostDataNext]_vars

InitSections ==
  /\ SectionsInit /\ PostDataIdle /\ ScrollIdle
  /\ RetryInit /\ LinksIdle /\ ImagesIdle /\ NavIdle /\ A11yIdle /\ PostsIdle /\ DataLoaded
SpecSections == InitSections /\ [][SectionsNext]_vars

InitScroll ==
  /\ ScrollInit /\ PostDataIdle /\ SectionsIdle
  /\ RetryInit /\ LinksIdle /\ ImagesIdle /\ NavIdle /\ A11yIdle /\ PostsIdle /\ DataLoaded
\* the interval fires again and again for as long as it is not cleared
SpecScroll == InitScroll /\ [][ScrollNext]_vars /\ WF_vars(ScrollTick)

InitA11y == A11yInit /\ RetryInit /\ LinksIdle /\ ImagesIdle /\ NavIdle /\ PostsIdle /\ LaterIdle /\ DataLoaded
SpecA11y == InitA11y /\ [][A11yNext]_vars

\* history read back from r_events
FnCalls == SelectSeq(r_events, LAMBDA ev : ev.kind = "fn")
WaitCalls == SelectSeq(r_events, LAMBDA ev : ev.kind = "wait")

-----------------------------------------------------------------------------
(* C1: retry with maxAttempts >= 1, when attempt k <= maxAttempts is the    *)
(* first on which fn resolves: retry resolves with that attempt's value,   *)
(* fn has been invoked exactly k times (k-1 rejections, then the success), *)
(* and no step taken once retry has resolved invokes fn again.             *)
C1_ResolvedState ==
  r_pc = "resolved" =>
    LET k == Len(FnCalls) IN
      /\ k >= 1 /\ k <= maxAttempts
      /\ k = attempt
      /\ FnCalls[k].outcome = "resolved"
      /\ FnCalls[k].value = r_result
      /\ \A j \in 1 .. (k - 1) : FnCalls[j].outcome = "rejected"

C1_RetryResolvesWithFirstSuccess ==
  /\ [](C1_ResolvedState)
  /\ [][(\E j \in 1 .. Len(r_events) : r_events[j].outcome = "resolved" /\ r_events[j].kind = "fn")
          => r_events' = r_events /\ r_pc' = "resolved"]_vars

\* fn rejected twice and resolved on the third attempt
C1_Witness ==
  /\ r_pc = "resolved"
  /\ Len(FnCalls) = 3
  /\ FnCalls[1].outcome = "rejected"
  /\ FnCalls[3].value = r_result

(* C2: retry with maxAttempts >= 1 (3 when omitted), when fn rejects on     *)
(* every attempt: fn is invoked exactly maxAttempts times and retry rejects *)
(* with the error of the last attempt.                                      *)
C2_RetryRejectsWithLastError ==
  (r_pc = "rejected" /\ maxAttempts >= 1) =>
    /\ Len(FnCalls) = maxAttempts
    /\ \A j \in 1 .. Len(FnCalls) : FnCalls[j].outcome = "rejected"
    /\ r_result = FnCalls[Len(FnCalls)].value
    /\ r_result \in FnErrors
    /\ ~options.maxAttempts.given => Len(FnCalls) = 3

\* maxAttempts omitted, three rejections, the first and the last differ
C2_Witness ==
  /\ r_pc = "rejected"
  /\ ~options.maxAttempts.given
  /\ Len(FnCalls) = 3
  /\ FnCalls[1].value = "e1"
  /\ FnCalls[3].value = "e2"
  /\ r_result = "e2"

(* C3: verifyLinksNotBroken tolerates failures: when building the absolute *)
(* URL or the HEAD request throws for a link, the function does not reject, *)
(* that link adds nothing to brokenLinks, the links after it are still     *)
(* visited, and the function ends resolved, with every link visited.       *)
Threw(j) == l_log[j].what \in {"urlThrew", "headThrew"}

C3_LinkFailuresTolerated ==
  /\ l_pc # "rejected"
  /\ l_pc = "resolved" \/ ENABLED LinksNext
  /\ Len(l_log) = l_i
  /\ \A j \in 1 .. Len(l_log) : l_log[j].index = j
  /\ Len(brokenLinks) =
       Cardinality({j \in 1 .. Len(l_log) : ~Threw(j) /\ l_log[j].what = "requested"
                                             /\ l_log[j].status >= 400})
  /\ l_pc = "resolved" => l_i = Len(links)

\* the first link does not parse, the second request throws, the third link
\* answers 404 and is the only one reported
C3_Witness ==
  /\ l_pc = "resolved"
  /\ Len(l_log) = 3
  /\ l_log[1].what = "urlThrew"
  /\ l_log[2].what = "headThrew"
  /\ l_log[3].what = "requested" /\ l_log[3].status = 404
  /\ Len(brokenLinks) = 1

(* C4: checkImagesHaveAlt: every img with no alt attribute gives exactly    *)
(* one 'critical' violation, every img whose alt is empty or whitespace    *)
(* only gives exactly one 'minor' violation, an img with a non-blank alt   *)
(* gives none; the violations are those of the offending images in DOM     *)
(* order, so they are never more than the images.                          *)
IsBlank(str) == \A k \in 1 .. Len(str) : str[k] \in Whitespace

AltMissing(img) == ~img.alt.present
AltBlank(img) == img.alt.present /\ IsBlank(img.alt.text)
Offending(imgs) == SelectSeq(imgs, LAMBDA img : AltMissing(img) \/ AltBlank(img))

C4_ImagesWithoutAltFlagged ==
  LET seen == SubSeq(images, 1, im_i)
      bad == Offending(seen)
  IN  /\ im_pc \in {"loop", "resolved"} =>
           /\ Len(im_violations) = Len(bad)
           /\ Len(im_violations) <= Len(seen)
           /\ \A j \in 1 .. Len(bad) :
                /\ im_violations[j].element = ImgElement(bad[j].src)
                /\ im_violations[j].severity =
                     (IF AltMissing(bad[j]) THEN "critical" ELSE "minor")
      /\ im_pc = "resolved" => im_i = Len(images)

\* a page with an img without alt after an img with a whitespace-only alt
C4_Witness ==
  /\ im_pc = "resolved"
  /\ Len(images) = 2
  /\ images[1].alt = Attr(<<" ", "\t">>)
  /\ ~images[2].alt.present
  /\ Len(im_violations) = 2
  /\ im_violations[1].severity = "minor"
  /\ im_violations[2].severity = "critical"

(* C5: from a loaded home page with the menu collapsed, goToAbout() does not
   reject on any viewport, and when it has returned the page URL matches
   /about/i. *)
C5_GoToAboutReachesAbout ==
  \A t \in Tests :
    (call[t].method = "goToAbout" /\ call[t].url = "home" /\ ~call[t].menuOpen)
      => /\ t_pc[t] # "failed"
         /\ t_pc[t] = "idle" => MatchesAbout(Pg(t).url)

\* goToAbout() returned on a mobile viewport, where the link had to be
\* reached through the menu toggle
C5_Witness ==
  /\ t_pc["t1"] = "idle"
  /\ call["t1"] = [method |-> "goToAbout", url |-> "home", menuOpen |-> FALSE]
  /\ page["t1"].viewport = "mobile"
  /\ page["t1"].url = "about"
  /\ \E k \in 1 .. Len(trace["t1"]) : trace["t1"][k] = Ev("click", "toggle", "ok")

NavigationMethods == {"goToPosts", "goToCategories", "goToTags", "goToAbout", "clickPostByIndex"}

(* C6: a navigation method that has returned leaves the test on a page of the
   site with the menu collapsed; and goToHome() called on such a page does
   not reject, and when it has returned the page URL matches /QAbbalah\/?$/,
   whether the logo, the menu toggle or the plain home link was clicked. *)
C6_GoToHomeReturnsHome ==
  \A t \in Tests :
    /\ (t_pc[t] = "idle" /\ call[t].method \in NavigationMethods)
         => Pg(t).url \in SitePages \ {"home"} /\ ~Pg(t).menuOpen
    /\ (call[t].method = "goToHome" /\ call[t].url \in SitePages \ {"home"}
          /\ ~call[t].menuOpen)
         => /\ t_pc[t] # "failed"
            /\ t_pc[t] = "idle" => MatchesHome(Pg(t).url)

\* goToHome() returned from the about page on a mobile viewport of a site
\* without a logo: the toggle path
C6_Witness ==
  /\ t_pc["t1"] = "idle"
  /\ call["t1"] = [method |-> "goToHome", url |-> "about", menuOpen |-> FALSE]
  /\ ~site.logo
  /\ page["t1"].viewport = "mobile"
  /\ page["t1"].url = "home"
  /\ \E k \in 1 .. Len(trace["t1"]) : trace["t1"][k] = Ev("click", "toggle", "ok")

(* C7: once footer.scrollIntoView() has returned on the loaded page,
   footer.isVisible() returns true. *)
C7_FooterVisibleAfterScroll ==
  \A t \in Tests :
    (t_pc[t] = "idle" /\ call[t].method = "footer.isVisible" /\ scrolled[t])
      => ret[t] = Bool(TRUE)

\* isVisible() answered after navigate() and scrollIntoView()
C7_Witness ==
  /\ t_pc["t1"] = "idle"
  /\ call["t1"] = [method |-> "footer.isVisible", url |-> "home", menuOpen |-> FALSE]
  /\ scrolled["t1"]
  /\ page["t1"].url = "home"
  /\ ret["t1"] = Bool(TRUE)

\* getRecentPostsCount() has returned on the home page
PostsCounted(t) ==
  /\ t_pc[t] = "idle"
  /\ call[t].method = "getRecentPostsCount"
  /\ call[t].url = "home"

(* C8 as stated: after navigate(), getRecentPostsCount() returns the number
   of post cards on the page, and that number is at least 1. *)
C8_CountIsAtLeastOne ==
  \A t \in Tests :
    PostsCounted(t)
      => ret[t] = Number(PostCards(site, Pg(t))) /\ ret[t].number >= 1

(* C8: after navigate(), getRecentPostsCount() returns the number of post
   cards on the page, zero included: navigate() waits for #main only, so the
   number is at least 1 exactly when the page shows a post card. *)
C8_CountIsNumberOfCards ==
  \A t \in Tests :
    PostsCounted(t)
      => /\ ret[t] = Number(PostCards(site, Pg(t)))
         /\ ret[t].number >= 0
         /\ ret[t].number >= 1 <=> site.posts >= 1

\* the home page loaded without a post card and the count came back 0
C8_Witness ==
  /\ PostsCounted("t1")
  /\ site.posts = 0
  /\ site.main
  /\ ret["t1"] = Number(0)

\* a test that has its fixtures
SetUp(t) == t_pc[t] \notin {"off", "new"}

(* C9: every test's page objects are bound to the test's own page, and every
   step is the step of one test: it changes nothing of what another test's
   page objects observe or hold. *)
C9_TestsShareNoState ==
  /\ [](\A t \in Tests : SetUp(t) => bound[t] = t)
  /\ [][\E s \in Tests : \A t \in Tests \ {s} :
          /\ SetUp(t) => page'[bound[t]] = page[bound[t]]
          /\ <<bound'[t], call'[t], trace'[t], ret'[t], scrolled'[t], t_pc'[t]>>
               = <<bound[t], call[t], trace[t], ret[t], scrolled[t], t_pc[t]>>]_vars

\* both tests are under way, on different pages at different viewports, the
\* menu expanded in one only
C9_Witness ==
  /\ SetUp("t1") /\ SetUp("t2")
  /\ page["t1"].url = "home" /\ page["t1"].viewport = "mobile"
  /\ page["t1"].menuOpen
  /\ page["t2"].url = "about" /\ page["t2"].viewport = "desktop"
  /\ ~page["t2"].menuOpen

\* the calls a method made into the library, without their outcomes
ActionsOf(t) == [k \in 1 .. Len(trace[t]) |-> <<trace[t][k].op, trace[t][k].on>>]

IsAnswer(ev) == ev.op = "isVisible"

\* what the isVisible() calls of a method answered
AnswersOf(t) == SelectSeq(trace[t], IsAnswer)

\* the method the test called has returned
Completed(t) == t_pc[t] = "idle" /\ call[t].method # "none"

BranchingMethods == {"goToHome", "goToAbout", "toggleMobileMenu", "getRssFeedUrl"}

(* C10 as stated: a page-object method performs the same sequence of actions
   whatever the page shows. *)
C10_SameActionsWhateverThePage ==
  \A t, u \in Tests :
    (Completed(t) /\ Completed(u) /\ call[t].method = call[u].method)
      => ActionsOf(t) = ActionsOf(u)

(* C10: navigate() performs one fixed sequence of actions; goToHome(),
   goToAbout(), toggleMobileMenu() and getRssFeedUrl() branch on what
   isVisible() answers, and two runs of one method that were given the same
   answers perform the same sequence of actions. *)
C10_ActionsFollowVisibilityAnswers ==
  \A t, u \in Tests :
    (Completed(t) /\ Completed(u) /\ call[t].method = call[u].method)
      => /\ AnswersOf(t) = AnswersOf(u) => ActionsOf(t) = ActionsOf(u)
         /\ ActionsOf(t) # ActionsOf(u) => call[t].method \in BranchingMethods

\* goToAbout() returned in both tests, one having clicked the toggle first
C10_Witness ==
  /\ Completed("t1") /\ Completed("t2")
  /\ call["t1"].method = "goToAbout" /\ call["t2"].method = "goToAbout"
  /\ AnswersOf("t1") # AnswersOf("t2")
  /\ Len(ActionsOf("t1")) > Len(ActionsOf("t2"))

\* sub occurs in str as a run of consecutive elements
OccursIn(sub, str) ==
  \E k \in 0 .. Len(str) - Len(sub) : SubSeq(str, k + 1, k + Len(sub)) = sub

\* the img elements without an alt attribute, the a elements without a name
ImagesWithoutAlt == {k \in 1 .. Len(doc.imgs) : ~doc.imgs[k].alt.present}
LinksWithoutName ==
  {k \in 1 .. Len(doc.anchors) :
     /\ Trim(doc.anchors[k].text) = <<>>
     /\ doc.anchors[k].ariaLabel \in {Null, Attr(<<>>)}}

IsNewline(tok) == tok = "\n"

(* C11: assertNoCriticalViolations throws exactly when the page has an image
   without an alt attribute or a link without an accessible name; a missing
   language, missing or multiple h1, skipped heading levels and empty alts
   alone never make it throw; and the message thrown has one line for each
   critical violation. *)
C11_ThrowsIffCritical ==
  /\ a_pc = "rejected" => ImagesWithoutAlt # {} \/ LinksWithoutName # {}
  /\ a_pc = "resolved" => ImagesWithoutAlt = {} /\ LinksWithoutName = {} /\ a_error = <<>>
  /\ a_pc = "rejected" =>
       /\ Len(SelectSeq(a_error, IsNewline))
            = Cardinality(ImagesWithoutAlt) + Cardinality(LinksWithoutName)
       /\ \A k \in ImagesWithoutAlt :
            OccursIn(ImgElement(doc.imgs[k].src) \o <<": ", "Image missing alt attribute">>,
                     a_error)
       /\ \A k \in LinksWithoutName :
            OccursIn(AnchorElement(doc.anchors[k].href)
                       \o <<": ", "Link has no accessible name">>,
                     a_error)

\* thrown for a page with one image without alt and one nameless link, the
\* page having no language and no h1 either
C11_Witness ==
  /\ a_pc = "rejected"
  /\ Cardinality(ImagesWithoutAlt) = 1
  /\ Cardinality(LinksWithoutName) = 1
  /\ doc.lang = <<>>
  /\ doc.levels = <<>>
  /\ Len(allViolations) = 4

(* C12: constructing the page objects performs no browser action, it only
   binds them to the page; the page they hold is never reassigned; and a
   locator accessor performs no browser action and returns the locator of
   the field, built on the test's own page, on every call. *)
C12_ConstructionOnlyBuildsLocators ==
  /\ [][\A t \in Tests :
          /\ (t_pc[t] = "new" /\ t_pc'[t] # "new")
               => page' = page /\ trace'[t] = <<>> /\ bound'[t] = t
          /\ bound[t] # "none" => bound'[t] = bound[t]]_vars
  /\ [](\A t \in Tests :
          (t_pc[t] = "idle" /\ call[t].method = "getLocator")
            => /\ ret[t].kind = "locator"
               /\ ret[t].locator[1] = t
               /\ ret[t].locator[2] \in LocatorFields
               /\ trace[t] = <<>>
               /\ Pg(t).url = call[t].url)

\* the accessor answered right after construction, the page still blank
C12_Witness ==
  /\ t_pc["t1"] = "idle"
  /\ bound["t1"] = "t1"
  /\ call["t1"].method = "getLocator"
  /\ ret["t1"] = LocatorValue("t1", "mainContent")
  /\ page["t1"] = BlankPage

(* C13: the test data is loaded once and only read: whatever the tests and
   page objects do, every record holds the values the module exported. *)
C13_TestDataNeverWritten ==
  /\ [](data = TestData)
  /\ [][data' = data]_vars

\* a test has set the mobile viewport from the data and driven its page
\* objects to the about page
C13_Witness ==
  /\ t_pc["t1"] = "idle"
  /\ page["t1"].viewport = "mobile"
  /\ page["t1"].url = "about"
  /\ call["t1"].method = "goToAbout"
  /\ data.Viewports.mobile.width = 375

\* HomePage.navigate() was called on the error page of an invalid path
NavigateAfterInvalidPath(t) ==
  call[t] = [method |-> "navigate", url |-> "notfound", menuOpen |-> FALSE]

(* C14: on a site whose home page shows its main content (what the first
   navigate() having returned establishes), HomePage.navigate() called after
   a page.goto to an invalid path completes with the home page loaded and
   the main content visible; it rejects only when the site does not answer
   the goto at all. *)
C14_NavigateRecovers ==
  \A t \in Tests :
    (NavigateAfterInvalidPath(t) /\ site.main)
      => /\ t_pc[t] = "idle" => Pg(t).url = "home" /\ Visible(site, Pg(t), "main")
         /\ t_pc[t] = "failed" => trace[t] = <<Ev("goto", "home", "error")>>

\* the second navigate() has returned
C14_Witness ==
  /\ NavigateAfterInvalidPath("t1")
  /\ t_pc["t1"] = "idle"
  /\ page["t1"].url = "home"
  /\ site.main
  /\ Len(trace["t1"]) = 4

(* C15: when findPostContaining(searchText) returns a post, the title of
   that post contains searchText, case-insensitively, whatever the page
   holds. *)
C15_FoundPostContainsText ==
  (p_pc = "resolved" /\ p_result.kind = "post")
    => Includes(ToLowerCase(p_result.title), ToLowerCase(searchText))

\* retry has returned or thrown
RetryDone == r_pc \in {"resolved", "rejected"}

(* C16: retry waits `delay` only between attempts: the first call is a call
   of fn, every wait(delay) comes right after a failed attempt and is
   followed by the next attempt, and once retry has ended after n >= 1
   calls of fn it has waited exactly n-1 times, the last call being fn. *)
C16_WaitsOnlyBetweenAttempts ==
  /\ r_events # <<>> => r_events[1].kind = "fn"
  /\ \A k \in 1 .. Len(r_events) :
       r_events[k].kind = "wait" =>
         /\ r_events[k].ms = delay
         /\ k > 1 /\ r_events[k - 1] \in {FnRejected(e) : e \in FnErrors}
         /\ k < Len(r_events) => r_events[k + 1].kind = "fn"
         /\ k = Len(r_events) => r_pc \in {"loop", "calling"}
  /\ (RetryDone /\ Len(FnCalls) >= 1) =>
       /\ Len(WaitCalls) = Len(FnCalls) - 1
       /\ r_events[Len(r_events)].kind = "fn"

\* three failed attempts, two waits of the delay given
C16_Witness ==
  /\ r_pc = "rejected"
  /\ options.delay = Given(50)
  /\ Len(FnCalls) = 3
  /\ Len(WaitCalls) = 2
  /\ r_events[2] = Waited(50)
  /\ r_events[4] = Waited(50)

(* C17: retry called with maxAttempts <= 0 never calls fn, never waits, and
   rejects with undefined: it neither resolves nor throws an error fn
   produced. *)
C17_NoAttemptRejectsUndefined ==
  (r_pc # "idle" /\ maxAttempts <= 0) =>
    /\ r_events = <<>>
    /\ r_pc \in {"loop", "rejected"}
    /\ r_pc = "rejected" => r_result = Undefined /\ r_result \notin FnErrors

\* retry({ maxAttempts: 0 }) has thrown
C17_Witness ==
  /\ r_pc = "rejected"
  /\ options.maxAttempts = Given(0)
  /\ r_result = Undefined
  /\ r_events = <<>>

\* a link the function has to request: its href is not empty and starts
\* neither with '#' nor with 'javascript:'
IsRequestable(href) ==
  /\ Len(href) > 0
  /\ href[1] # "#"
  /\ ~(Len(href) >= 11 /\ SubSeq(href, 1, 11)
                            = <<"j", "a", "v", "a", "s", "c", "r", "i", "p", "t", ":">>)

AnsweredBroken(visit) == visit.what = "requested" /\ visit.status >= 400

(* C18: verifyLinksNotBroken returns, in DOM order, exactly one entry
   `href (status)` for each link that was requested and answered with a
   status >= 400; links answered below 400, fragment links and javascript:
   links never appear, and only non-empty hrefs that are neither fragments
   nor javascript: are ever requested. *)
C18_BrokenLinksExactly ==
  LET broken == SelectSeq(l_log, AnsweredBroken) IN
  /\ Len(brokenLinks) = Len(broken)
  /\ \A k \in 1 .. Len(broken) :
       brokenLinks[k] = links[broken[k].index] \o <<" ", "(">>
                          \o StatusText(broken[k].status) \o <<")">>
  /\ \A j \in 1 .. Len(l_log) :
       /\ l_log[j].index = j
       /\ l_log[j].what = "skipped" <=> ~IsRequestable(links[j])
  /\ l_pc = "head" => IsRequestable(links[l_i + 1])
  /\ l_pc = "resolved" => Len(l_log) = Len(links)

\* a fragment link, then two links answered 404 and 400: both reported, in
\* that order
C18_Witness ==
  /\ l_pc = "resolved"
  /\ links = <<HrefFragment, HrefRooted, HrefRelative>>
  /\ l_log[1].what = "skipped"
  /\ l_log[2] = Visit(2, "requested", 404)
  /\ l_log[3] = Visit(3, "requested", 400)
  /\ brokenLinks = <<BrokenEntry(HrefRooted, 404), BrokenEntry(HrefRelative, 400)>>

\* the library calls of navigate(), in the order of the code
NavigateSteps(content) ==
  <<<<"goto">>, <<"waitForLoadState", "domcontentloaded">>,
    <<"waitForLoadState", "networkidle">>, <<"waitFor", content>>>>

\* the calls made so far are the first steps of navigate(), in order
FollowsNavigateSteps(t, content) ==
  /\ Len(trace[t]) <= 4
  /\ \A k \in 1 .. Len(trace[t]) :
       LET step == NavigateSteps(content)[k] IN
         /\ trace[t][k].op = step[1]
         /\ Len(step) = 2 => trace[t][k].on = step[2]
  /\ \A k \in 1 .. Len(trace[t]) - 1 : trace[t][k].result = "ok"
  /\ t_pc[t] = "idle" => Len(trace[t]) = 4 /\ trace[t][4].result = "ok"

(* C19: navigate() performs goto, then the wait for 'domcontentloaded', then
   the wait for 'networkidle', then (HomePage, AboutPage) the wait for the
   page's content locator, each step only after the one before resolved;
   whenever HomePage.navigate() has returned the home page is loaded with
   its main content visible, so it never returns when the content is not
   visible. *)
C19_NavigateOrder ==
  \A t \in Tests :
    /\ call[t].method = "navigate" =>
         /\ FollowsNavigateSteps(t, "main")
         /\ t_pc[t] = "idle" => Pg(t).url = "home" /\ Visible(site, Pg(t), "main")
         /\ ~site.main => t_pc[t] # "idle"
    /\ call[t].method = "aboutPage.navigate" =>
         /\ FollowsNavigateSteps(t, "aboutContent")
         /\ t_pc[t] = "idle" => Pg(t).url = "about"

\* HomePage.navigate() rejected on the fourth step: the page loaded, the
\* main content never showed
C19_Witness ==
  /\ call["t1"].method = "navigate"
  /\ t_pc["t1"] = "failed"
  /\ ~site.main
  /\ Len(trace["t1"]) = 4
  /\ trace["t1"][3] = Ev("waitForLoadState", "networkidle", "ok")
  /\ trace["t1"][4] = Ev("waitFor", "main", "timeout")

\* the three paths of goToHome, as the calls made into the library
LogoPath ==
  <<<<"isVisible", "logo">>, <<"click", "logo">>, <<"waitForLoadState", "networkidle">>>>
TogglePath ==
  <<<<"isVisible", "logo">>, <<"isVisible", "toggle">>, <<"click", "toggle">>,
    <<"waitForTimeout", "300">>, <<"click", "home">>, <<"waitForLoadState", "networkidle">>>>
HomeLinkPath ==
  <<<<"isVisible", "logo">>, <<"isVisible", "toggle">>, <<"click", "home">>,
    <<"waitForLoadState", "networkidle">>>>

IsPrefixOf(a, b) == Len(a) <= Len(b) /\ SubSeq(b, 1, Len(a)) = a

\* the page as it was when the method was called; the viewport is the test's
\* to change, between calls only
PageAtCall(t) == [Pg(t) EXCEPT !.url = call[t].url, !.menuOpen = call[t].menuOpen]

\* the path the page at the time of the call asks for
PathOfGoToHome(t) ==
  IF Visible(site, PageAtCall(t), "logo") THEN LogoPath
  ELSE IF Visible(site, PageAtCall(t), "toggle") THEN TogglePath
  ELSE HomeLinkPath

\* the path the answers of isVisible() ask for, the first that answered true
\* winning
PathOfAnswers(answers) ==
  IF Len(answers) >= 1 /\ answers[1].result = "true" THEN LogoPath
  ELSE IF Len(answers) >= 2 /\ answers[2].result = "false" THEN HomeLinkPath
  ELSE TogglePath

\* every call made before the last one resolved
ResolvedButLast(t) ==
  \A k \in 1 .. Len(trace[t]) - 1 : trace[t][k].result \in {"ok", "true", "false"}

(* C20: goToHome() takes one of three paths, by priority: the logo alone when
   the logo is visible, even with the toggle visible too; else toggle, wait,
   home link when the toggle is visible; else the home link alone. It makes
   the calls of that path in order and no other, and when it has returned it
   has made them all, the single wait for 'networkidle' last. *)
C20_GoToHomeOneOfThreePaths ==
  \A t \in Tests :
    call[t].method = "goToHome" =>
      /\ IsPrefixOf(ActionsOf(t), PathOfAnswers(AnswersOf(t)))
      /\ ResolvedButLast(t)
      /\ t_pc[t] = "idle" => ActionsOf(t) = PathOfAnswers(AnswersOf(t))
      /\ t_pc[t] # "idle" => IsPrefixOf(ActionsOf(t), PathOfGoToHome(t))

\* goToHome() returned on a mobile viewport of a site with a logo: the toggle
\* was visible too and was not touched
C20_Witness ==
  /\ t_pc["t1"] = "idle"
  /\ call["t1"].method = "goToHome"
  /\ call["t1"].url = "about"
  /\ site.logo
  /\ page["t1"].viewport = "mobile"
  /\ ActionsOf("t1") = LogoPath
  /\ page["t1"].url = "home"

\* goToAbout() found the menu toggle visible
ToggleSeen(t) ==
  /\ call[t].method = "goToAbout"
  /\ trace[t] # <<>>
  /\ trace[t][1] = Ev("isVisible", "toggle", "true")

(* C21: where the menu toggle is visible, goToAbout() clicks the About link
   while the mobile menu is expanded, whatever the menu state was when it was
   called: when the About link is about to be clicked the menu is expanded,
   and the click does not time out. *)
C21_AboutClickedInExpandedMenu ==
  \A t \in Tests :
    ToggleSeen(t) =>
      /\ t_pc[t] = "goToAbout:98" => Pg(t).menuOpen
      /\ trace[t][Len(trace[t])] # Ev("click", "about", "timeout")

\* getAllPostTitles() has returned: findPostContaining holds its result
TitlesReturned == p_pc \notin {"idle", "getAllPostTitles:51"}

\* the texts of the matched title links that are not blank, in document order
NonBlankTitleTexts == SelectSeq(TitleLocators(cards), LAMBDA text : ~IsBlank(text))

(* C22: getAllPostTitles() returns the trimmed text of every matched title
   link whose trimmed text is not empty, in document order: every title is
   non-empty with no whitespace at either end, blank titles are dropped, and
   there are no more titles than matched links. *)
C22_TitlesTrimmedNonBlankInOrder ==
  TitlesReturned =>
    /\ Len(titles) = Len(NonBlankTitleTexts)
    /\ \A k \in 1 .. Len(titles) :
         /\ titles[k] = Trim(NonBlankTitleTexts[k])
         /\ Len(titles[k]) > 0
         /\ titles[k][1] \notin Whitespace
         /\ titles[k][Len(titles[k])] \notin Whitespace
    /\ Len(titles) <= Len(TitleLocators(cards))

\* two cards, the first with a blank title link and a padded one, the second
\* with a plain one: the blank is dropped, the padded title is trimmed
C22_Witness ==
  /\ TitlesReturned
  /\ cards = <<<<<<" ">>, <<" ", "a", "\n">>>>, <<<<"k">>>>>>
  /\ titles = <<<<"a">>, <<"k">>>>

\* the positions, from 0, of the titles that contain searchText whatever the case
MatchingPositions ==
  {k \in 0 .. Len(titles) - 1 : Includes(ToLowerCase(titles[k + 1]), ToLowerCase(searchText))}

\* findPostContaining is past its findIndex
IndexFound == p_pc \in {"getPostByIndex:65", "resolved", "rejected"}

(* C23: findPostContaining(searchText) returns null if and only if no title
   of getAllPostTitles() contains searchText case-insensitively; when some
   title does, getPostByIndex is called with the position in the title list
   of the first that does. *)
C23_NullIffNoTitleMatches ==
  IndexFound =>
    /\ (p_pc = "resolved" /\ p_result = NullPost) <=> MatchingPositions = {}
    /\ MatchingPositions # {} =>
         /\ matchingIndex \in MatchingPositions
         /\ \A k \in MatchingPositions : matchingIndex <= k
    /\ p_pc = "getPostByIndex:65" => MatchingPositions # {}

\* 'k' is looked for among the titles a, K, k: the post is read at position 1,
\* the first match, one that differs in case
C23_Witness ==
  /\ p_pc = "resolved"
  /\ p_result.kind = "post"
  /\ searchText = <<"k">>
  /\ cards = <<<<<<" ", "a", "\n">>>>, <<<<"K">>, <<"k">>>>>>
  /\ matchingIndex = 1

\* the characters of the texts of the model
Chars == {" ", "\t", "\n", "a", "d", "k", "K", "t", "x", "/"}

(* C24: for every index below getPostCount(), getPostByIndex(index) resolves
   with a record whose title, date and description are strings and whose
   tags are non-empty trimmed strings, also for a card with no date element,
   no excerpt element or no tags. *)
C24_PostDataAlwaysResolves ==
  /\ g_pc # "rejected"
  /\ g_pc = "resolved" =>
       /\ g_post.title \in Seq(Chars)
       /\ g_post.date \in Seq(Chars)
       /\ g_post.description \in Seq(Chars)
       /\ \A k \in 1 .. Len(g_post.tags) :
            g_post.tags[k] # <<>> /\ Trim(g_post.tags[k]) = g_post.tags[k]

\* the names among the first n of SectionNames whose component is visible
VisibleAmong(n) == SelectSeq(SubSeq(SectionNames, 1, n), ComponentIsVisible)

(* C29: getVisibleSections() asks each component once, in the order
   navigation, profile, blog-posts, footer, and returns exactly the names of
   those whose isVisible() is true, in that order and without duplicates:
   the empty list when none is visible. *)
C29_SectionsAreTheVisibleOnes ==
  s_pc # "idle" =>
    /\ s_asked = SubSeq(SectionNames, 1, Len(s_asked))
    /\ sections = VisibleAmong(Len(s_asked))
    /\ s_pc = "resolved" =>
         /\ s_asked = SectionNames
         /\ \A name \in DOMAIN components :
              ComponentIsVisible(name) <=> \E k \in 1 .. Len(sections) : sections[k] = name
         /\ \A j, k \in 1 .. Len(sections) : j # k => sections[j] # sections[k]
         /\ (\A name \in DOMAIN components : ~ComponentIsVisible(name)) => sections = <<>>

\* the profile is missing and the posts are not rendered: the two others are
\* returned
C29_Witness ==
  /\ s_pc = "resolved"
  /\ components = [name \in {"navigation", "profile", "blog-posts", "footer"} |->
                     CASE name = "profile" -> "absent"
                       [] name = "blog-posts" -> "hidden"
                       [] OTHER -> "visible"]
  /\ sections = <<"navigation", "footer">>

\* the least number of steps of `distance` that reach height, one at least
TicksToReach(height) ==
  IF height = 0 THEN 1 ELSE (height + distance - 1) \div distance

\* while the promise is pending the timer is set and the distance scrolled is
\* short of the height; once it has resolved the timer is cleared and the
\* distance has reached the height; with the height constant that took
\* TicksToReach ticks
ScrollSafety ==
  /\ totalHeight = ticks * distance
  /\ sc_pc = "evaluating" => timer /\ (ticks >= 1 => totalHeight < scrollHeight)
  /\ sc_pc = "resolved" =>
       /\ ~timer
       /\ ticks >= 1
       /\ totalHeight >= scrollHeight
       /\ totalHeight - distance < scrollHeight \/ ticks = 1
       /\ growths = 0 => ticks = TicksToReach(scrollHeight)

(* C30: scrollFullPage terminates: the timer is cleared and the promise
   resolves once the distance scrolled, 100 a tick, reaches
   document.body.scrollHeight as read on that tick: after
   ceil(scrollHeight/100) ticks, one at least, when the height is constant,
   and eventually also when the height grows a bounded number of times. *)
C30_ScrollFullPageTerminates ==
  /\ []ScrollSafety
  /\ (sc_pc = "evaluating") ~> (sc_pc = "resolved")

\* the page grew twice while it was scrolled, and the scroll ended
C30_Witness ==
  /\ sc_pc = "resolved"
  /\ growths = 2
  /\ ticks >= 4

\* runAccessibilityChecks is past checkLinksAccessible, past checkHeadingHierarchy
LinksChecked ==
  a_pc \in {"runAccessibilityChecks:192", "runAccessibilityChecks:193",
            "assertNoCriticalViolations:203", "resolved", "rejected"}
HeadingsChecked ==
  a_pc \in {"runAccessibilityChecks:193", "assertNoCriticalViolations:203",
            "resolved", "rejected"}

\* what checkHeadingHierarchy reported: the violations whose element is a
\* heading; those about the h1 count name h1, a skip names the level skipped to
HeadingElements == {<<"h" \o ToString(n)>> : n \in 1 .. 6}
HeadingFindings == SelectSeq(allViolations, LAMBDA v : v.element \in HeadingElements)
SkipFindings == SelectSeq(HeadingFindings, LAMBDA v : v.element # <<"h1">>)
H1Findings == SelectSeq(HeadingFindings, LAMBDA v : v.element = <<"h1">>)

\* the positions of the headings that are not the first and lie more than one
\* level above the heading before them, in document order
IsSkip(k) == k > 1 /\ doc.levels[k] > doc.levels[k - 1] + 1
SkipPositions == SelectSeq([k \in 1 .. Len(doc.levels) |-> k], IsSkip)

(* C25: checkHeadingHierarchy reports a 'Heading level skipped' violation of
   severity 'moderate' for a heading exactly when it is not the first heading
   and its level is more than one above the level of the heading before it:
   never for the first heading, whatever its level, and never for a heading
   at the same or a lower level than the one before. *)
C25_SkipsExactlyTheJumps ==
  HeadingsChecked =>
    /\ Len(SkipFindings) = Len(SkipPositions)
    /\ \A j \in 1 .. Len(SkipFindings) :
         LET k == SkipPositions[j] IN
           /\ SkipFindings[j].element = <<"h" \o ToString(doc.levels[k])>>
           /\ SkipFindings[j].issue =
                "Heading level skipped from h" \o ToString(doc.levels[k - 1])
                  \o " to h" \o ToString(doc.levels[k])
           /\ SkipFindings[j].severity = "moderate"
    /\ (Len(doc.levels) = 1 \/ \A k \in 2 .. Len(doc.levels) : doc.levels[k] <= doc.levels[k - 1])
         => SkipFindings = <<>>

\* a page with an h1 followed by an h3: one skip is reported
C25_Witness ==
  /\ HeadingsChecked
  /\ doc.levels = <<1, 3>>
  /\ Len(SkipFindings) = 1
  /\ Len(HeadingFindings) = 1

\* how many h1 the page has
NumberOfH1 == Cardinality({k \in 1 .. Len(doc.levels) : doc.levels[k] = 1})

(* C26: on the h1 count checkHeadingHierarchy reports one 'serious' violation
   when the page has no h1, one 'moderate' violation when it has more than
   one, and none when it has exactly one; it reports no 'critical' violation
   and at most one 'serious' one, and exactly one violation for a page
   without headings. *)
C26_H1CountOutcomes ==
  HeadingsChecked =>
    /\ NumberOfH1 = 0 =>
         H1Findings = <<Violation(<<"h1">>, "No h1 element found on page", "serious")>>
    /\ NumberOfH1 = 1 => H1Findings = <<>>
    /\ NumberOfH1 > 1 =>
         H1Findings = <<Violation(<<"h1">>,
                                  "Multiple h1 elements found (" \o ToString(NumberOfH1) \o ")",
                                  "moderate")>>
    /\ \A k \in 1 .. Len(HeadingFindings) : HeadingFindings[k].severity # "critical"
    /\ Len(SelectSeq(HeadingFindings, LAMBDA v : v.severity = "serious")) <= 1
    /\ doc.levels = <<>> => Len(HeadingFindings) = 1

\* a page with two h1: the one moderate violation
C26_Witness ==
  /\ HeadingsChecked
  /\ doc.levels = <<1, 1>>
  /\ Len(H1Findings) = 1
  /\ H1Findings[1].severity = "moderate"

\* what checkLinksAccessible reported
LinkFindings == SelectSeq(allViolations, LAMBDA v : v.issue = "Link has no accessible name")

\* the a elements with a blank text and an aria-label that is absent or
\* empty, in document order
IsNameless(a) ==
  /\ \A k \in 1 .. Len(a.text) : a.text[k] \in Whitespace
  /\ ~a.ariaLabel.present \/ a.ariaLabel.text = <<>>
NamelessLinks == SelectSeq(doc.anchors, IsNameless)

(* C27: checkLinksAccessible reports a link, with one 'critical' violation a
   link in document order, exactly when its text is empty or only whitespace
   and its aria-label is absent or empty; a link with a non-blank text or a
   non-empty aria-label is never reported, with or without an href. *)
C27_NamelessLinksReported ==
  LinksChecked =>
    /\ Len(LinkFindings) = Len(NamelessLinks)
    /\ \A k \in 1 .. Len(LinkFindings) :
         /\ LinkFindings[k].element = AnchorElement(NamelessLinks[k].href)
         /\ LinkFindings[k].severity = "critical"

\* a link without href whose text is whitespace and whose aria-label is
\* empty: it is reported
C27_Witness ==
  /\ LinksChecked
  /\ doc.anchors = <<[text |-> <<" ", "\n">>, ariaLabel |-> Attr(<<>>), href |-> Null]>>
  /\ Len(LinkFindings) = 1

\* the results of the four checks, joined in the order they are run
FourChecks ==
  <<CheckImagesHaveAlt(doc.imgs), CheckLinksAccessible(doc.anchors),
    CheckHeadingHierarchy(doc.levels), CheckPageLanguage(doc.lang)>>

RECURSIVE Concat(_)
Concat(seqs) == IF seqs = <<>> THEN <<>> ELSE Head(seqs) \o Concat(Tail(seqs))

\* how many of the four checks have been run
ChecksRun ==
  CASE a_pc = "idle" -> 0
    [] a_pc = "runAccessibilityChecks:190" -> 0
    [] a_pc = "runAccessibilityChecks:191" -> 1
    [] a_pc = "runAccessibilityChecks:192" -> 2
    [] a_pc = "runAccessibilityChecks:193" -> 3
    [] OTHER -> 4

(* C28: runAccessibilityChecks returns the results of checkImagesHaveAlt,
   checkLinksAccessible, checkHeadingHierarchy and checkPageLanguage joined
   in that order, the checks run one after another; its length is the sum of
   the four lengths; checkFocusVisible is not run, the keyboard focus moves
   nowhere. *)
C28_ConcatenationOfFourChecks ==
  /\ [](a_pc # "idle" =>
          /\ allViolations = Concat(SubSeq(FourChecks, 1, ChecksRun))
          /\ ChecksRun = 4 =>
               Len(allViolations)
                 = Len(FourChecks[1]) + Len(FourChecks[2]) + Len(FourChecks[3])
                     + Len(FourChecks[4]))
  /\ [][doc'.activeElement = doc.activeElement]_vars

\* returned for a page where each of the four checks finds one violation
C28_Witness ==
  /\ a_pc = "assertNoCriticalViolations:203"
  /\ \A k \in 1 .. 4 : Len(FourChecks[k]) = 1
  /\ Len(allViolations) = 4
  /\ doc.anchors # <<>>

====
